---- MODULE Spec2Model ----
(***************************************************************************)
(* Chatbot-RAG: the orchestrator (rag/chatbot.py RAGChatbot), the hybrid   *)
(* retriever (rag/retriever.py VectorRetriever), the reranker              *)
(* (utils/reranker.py) and the generation client (rag/llm.py OllamaLLM).   *)
(*                                                                         *)
(* Numbers: distances and the hybrid weight are kept in tenths (a distance *)
(* of 0.2 is 2, alpha = 0.5 is 5), so a fused score is kept in hundredths  *)
(* and the arithmetic of _combine_results is exact.                        *)
(* Text: Python strings are TLA+ strings; concatenation is \o.             *)
(***************************************************************************)
EXTENDS Integers, Sequences, FiniteSets, TLC

VARIABLES
    is_initialized,        \* RAGChatbot.is_initialized
    collection,            \* the Chroma collection: stored chunks, in insertion order
    chat_history,          \* RAGChatbot.chat_history
    files,                 \* the chat-history files on disk: name -> text
    clock,                 \* datetime.now(): one tick per reading
    HYBRID_ALPHA,          \* config.HYBRID_ALPHA, in tenths
    ENABLE_HYBRID_SEARCH,  \* config.ENABLE_HYBRID_SEARCH
    reranker,              \* RAGChatbot.reranker: "none", "unavailable", "available"
    last,                  \* what the last call did and handed back to its caller
    loaded_since_clear,    \* history: a load has returned True since __init__ / clear_database
    appended               \* history: every exchange appended so far, in order

vars == <<is_initialized, collection, chat_history, files, clock, HYBRID_ALPHA,
          ENABLE_HYBRID_SEARCH, reranker, last, loaded_since_clear, appended>>

----------------------------------------------------------------------------
(* Program constants *)

MAX_CHAT_HISTORY == 10

DEFAULT_TOP_K == 5

KEYWORD_LIMIT == 5

KEYWORD_MIN_LEN == 3

KEYWORD_WEIGHT == 8

ONE == 10

(* Bounds of the model *)

MaxTurns == 1

MaxAppends == 12

MaxTopK == 2

MaxCandidates == 3

MaxHistory == 4

MaxWindow == 5

MaxDocuments == 3

----------------------------------------------------------------------------
(* Sequences *)

Range(s) == {s[i] : i \in 1..Len(s)}

\* Body(value), with value computed once: a local variable of the code
Bind(value, Body(_)) == CHOOSE r \in {Body(v) : v \in {value}} : TRUE

Min(a, b) == IF a < b THEN a ELSE b

\* Python s[:n] for n >= 0
Take(s, n) == SubSeq(s, 1, Min(n, Len(s)))

\* Python s[-n:] for n >= 1
LastN(s, n) == IF Len(s) <= n THEN s ELSE SubSeq(s, Len(s) - n + 1, Len(s))

RECURSIVE InsertDesc(_, _)
\* x placed after every element whose score is >= x.score: a stable descending insert
InsertDesc(sorted, x) ==
    IF sorted = <<>> THEN <<x>>
    ELSE IF Head(sorted).score >= x.score
         THEN <<Head(sorted)>> \o InsertDesc(Tail(sorted), x)
         ELSE <<x>> \o sorted

RECURSIVE SortDescFrom(_, _)
SortDescFrom(done, rest) ==
    IF rest = <<>> THEN done
    ELSE SortDescFrom(InsertDesc(done, Head(rest)), Tail(rest))

\* list.sort(key=score, reverse=True) and sorted(key=score, reverse=True): stable
SortDesc(s) == SortDescFrom(<<>>, s)

----------------------------------------------------------------------------
(* Text *)

UPPERCASE == "ABCDEFGHIJKLMNOPQRSTUVWXYZ"

LOWERCASE == "abcdefghijklmnopqrstuvwxyz"

DIGITS_UNDERSCORE == "0123456789_"

CharAt(s, i) == SubSeq(s, i, i)

Chars(s) == {CharAt(s, i) : i \in 1..Len(s)}

UpperLetters == Chars(UPPERCASE)

LowerLetters == Chars(LOWERCASE)

OtherWordChars == Chars(DIGITS_UNDERSCORE)

LowerOf == [c \in UpperLetters |->
              CharAt(LOWERCASE, CHOOSE i \in 1..Len(UPPERCASE) : CharAt(UPPERCASE, i) = c)]

LowerChar(c) == IF c \in UpperLetters THEN LowerOf[c] ELSE c

RECURSIVE str_lower(_)
\* str.lower(), on ASCII text
str_lower(s) ==
    IF Len(s) = 0 THEN ""
    ELSE LowerChar(CharAt(s, 1)) \o str_lower(SubSeq(s, 2, Len(s)))

\* Python `needle in hay` on strings
str_contains(hay, needle) ==
    \E i \in 1..(Len(hay) - Len(needle) + 1) :
        SubSeq(hay, i, i + Len(needle) - 1) = needle

IsLetter(c) == c \in LowerLetters \/ c \in UpperLetters

\* the regular expression's \w
IsWordChar(c) == IsLetter(c) \/ c \in OtherWordChars

AllLetters(s) == \A i \in 1..Len(s) : IsLetter(CharAt(s, i))

RECURSIVE WordRuns(_, _, _)
\* the maximal runs of \w characters of text, left to right
WordRuns(text, i, run) ==
    IF i > Len(text) THEN (IF run = "" THEN <<>> ELSE <<run>>)
    ELSE IF IsWordChar(CharAt(text, i)) THEN WordRuns(text, i + 1, run \o CharAt(text, i))
    ELSE (IF run = "" THEN <<>> ELSE <<run>>) \o WordRuns(text, i + 1, "")

\* re.findall(r'\b[a-zA-Z]{3,}\b', text): a match lies between two word boundaries,
\* so it is a maximal \w run that is all letters and at least 3 long
re_findall_words(text) ==
    SelectSeq(WordRuns(text, 1, ""),
              LAMBDA w : AllLetters(w) /\ Len(w) >= KEYWORD_MIN_LEN)

stop_words == {"the", "a", "an", "and", "or", "but", "in", "on", "at", "to", "for"}

_extract_keywords(text) ==
    LET words == re_findall_words(str_lower(text))
        keywords == SelectSeq(words, LAMBDA w : w \notin stop_words)
    IN  Take(keywords, KEYWORD_LIMIT)

----------------------------------------------------------------------------
(* Chunks and their metadata *)

\* a metadata key that is not in the dict
Absent == "<absent>"

\* the same, for a value that is a number before it is stored
NoValue == 0 - 1

\* dict.get(key, default)
Get(value, default) == IF value = Absent THEN default ELSE value

\* add_documents, lines 56-62: every value present is stored as str(value)
str_value(n) == IF n = NoValue THEN Absent ELSE ToString(n)

CoerceMetadata(md) ==
    [filename        |-> md.filename,
     global_chunk_id |-> str_value(md.global_chunk_id),
     chunk_id        |-> str_value(md.chunk_id),
     page_number     |-> str_value(md.page_number)]

\* add_documents, line 52: the id under which chunk number i (from 0) of the batch is stored
doc_id_of(md, i) ==
    Get(md.filename, "unknown") \o "_" \o
    (IF md.global_chunk_id = NoValue THEN ToString(i) ELSE ToString(md.global_chunk_id))

StoredIds(col) == {col[i].id : i \in 1..Len(col)}

\* collection.add of the external index: the whole batch or nothing. A batch with a
\* repeated id is refused; an id the collection already holds is refused
\* (on_existing = "raise") or left as stored (on_existing = "skip"), by library version.
ChromaAdd(col, items, fault, on_existing) ==
    LET ids == {items[i].id : i \in 1..Len(items)}
        fresh == SelectSeq(items, LAMBDA it : it.id \notin StoredIds(col))
    IN  IF fault \/ Cardinality(ids) # Len(items)
           \/ (on_existing = "raise" /\ ids \cap StoredIds(col) # {})
        THEN [raised |-> TRUE, collection |-> col]
        ELSE [raised |-> FALSE, collection |-> col \o fresh]

\* VectorRetriever.add_documents; raised = the exception left the method
add_documents(col, documents, fault, on_existing) ==
    IF documents = <<>> THEN [raised |-> FALSE, collection |-> col]
    ELSE LET items == [i \in 1..Len(documents) |->
                         [id       |-> doc_id_of(documents[i].metadata, i - 1),
                          content  |-> documents[i].content,
                          metadata |-> CoerceMetadata(documents[i].metadata)]]
         IN  ChromaAdd(col, items, fault, on_existing)

EmptyResults == [documents |-> <<>>, metadatas |-> <<>>, distances |-> <<>>]

\* collection.query of the external index: the n_results stored chunks nearest to the
\* query vector, nearest first; dist[i] is the distance of stored chunk i
ChromaQuery(col, dist, n_results) ==
    LET ranked == SortDesc([i \in 1..Len(col) |-> [score |-> 0 - dist[i], at |-> i]])
        top == Take(ranked, n_results)
    IN  [documents |-> [j \in 1..Len(top) |-> col[top[j].at].content],
         metadatas |-> [j \in 1..Len(top) |-> col[top[j].at].metadata],
         distances |-> [j \in 1..Len(top) |-> dist[top[j].at]]]

\* collection.get(limit=...): the stored chunks in insertion order
ChromaGet(col, limit) == Take(col, limit)

_format_search_results(results) ==
    [i \in 1..Len(results.documents) |->
        [content  |-> results.documents[i],
         metadata |-> results.metadatas[i],
         distance |-> results.distances[i]]]

----------------------------------------------------------------------------
(* VectorRetriever: lexical search, fusion, search *)

KEYWORD_SCAN_LIMIT == 1000

\* _keyword_search, line 142: one point per keyword of the list that the chunk contains
keyword_score(keywords, content) ==
    LET doc_lower == str_lower(content)
    IN  Cardinality({k \in 1..Len(keywords) : str_contains(doc_lower, keywords[k])})

\* VectorRetriever._keyword_search; get_fault = collection.get raises
_keyword_search(col, query_text, top_k, get_fault) ==
    IF get_fault THEN EmptyResults
    ELSE
    LET all_docs == ChromaGet(col, KEYWORD_SCAN_LIMIT)
        keywords == _extract_keywords(query_text)
        matching == SelectSeq(all_docs, LAMBDA d : keyword_score(keywords, d.content) >= 1)
        scored_docs == [i \in 1..Len(matching) |->
                          [score    |-> keyword_score(keywords, matching[i].content),
                           doc      |-> matching[i].content,
                           metadata |-> matching[i].metadata]]
        top_scored == Take(SortDesc(scored_docs), top_k)
    IN  IF all_docs = <<>> \/ keywords = <<>> \/ matching = <<>> THEN EmptyResults
        ELSE [documents |-> [i \in 1..Len(top_scored) |-> top_scored[i].doc],
              metadatas |-> [i \in 1..Len(top_scored) |-> top_scored[i].metadata],
              distances |-> [i \in 1..Len(top_scored) |-> 0]]

\* _combine_results, lines 181 and 189: the key under which a candidate is fused
fusion_key(doc) ==
    Get(doc.metadata.filename, "") \o Get(doc.metadata.global_chunk_id, "")

\* a semantic score that grows with the distance instead of shrinking with it
semantic_score_by_distance(alpha, doc) == alpha * doc.distance

\* _combine_results, line 184, in hundredths
semantic_score(alpha, doc) == alpha * (ONE - doc.distance)

\* _combine_results, lines 191 and 195, in hundredths
keyword_bonus(alpha) == (ONE - alpha) * KEYWORD_WEIGHT

KeyAt(entries, key) == CHOOSE i \in 1..Len(entries) : entries[i].key = key

HasKey(entries, key) == \E i \in 1..Len(entries) : entries[i].key = key

\* all_docs[doc_id] = {...}: a dict keeps the place of a key that is assigned again
put_semantic(entries, doc, alpha) ==
    LET e == [key |-> fusion_key(doc), doc |-> doc, score |-> semantic_score(alpha, doc)]
    IN  IF HasKey(entries, e.key)
        THEN [entries EXCEPT ![KeyAt(entries, e.key)] = e]
        ELSE Append(entries, e)

put_keyword(entries, doc, alpha) ==
    LET key == fusion_key(doc)
    IN  IF HasKey(entries, key)
        THEN [entries EXCEPT ![KeyAt(entries, key)].score = @ + keyword_bonus(alpha)]
        ELSE Append(entries, [key |-> key, doc |-> doc, score |-> keyword_bonus(alpha)])

RECURSIVE fold_semantic(_, _, _)
fold_semantic(entries, docs, alpha) ==
    IF docs = <<>> THEN entries
    ELSE fold_semantic(put_semantic(entries, Head(docs), alpha), Tail(docs), alpha)

RECURSIVE fold_keyword(_, _, _)
fold_keyword(entries, docs, alpha) ==
    IF docs = <<>> THEN entries
    ELSE fold_keyword(put_keyword(entries, Head(docs), alpha), Tail(docs), alpha)

\* _combine_results, lines 177-196: the dict all_docs, in insertion order
all_docs_of(semantic_docs, keyword_docs, alpha) ==
    fold_keyword(fold_semantic(<<>>, semantic_docs, alpha), keyword_docs, alpha)

\* a fusion that returns the whole fused set, without the [:top_k] of line 200
_combine_results_unsliced(semantic_results, keyword_results, top_k, alpha) ==
    LET semantic_docs == _format_search_results(semantic_results)
        keyword_docs == _format_search_results(keyword_results)
        sorted_docs == SortDesc(all_docs_of(semantic_docs, keyword_docs, alpha))
    IN  [i \in 1..Len(sorted_docs) |-> sorted_docs[i].doc]

\* VectorRetriever._combine_results
_combine_results(semantic_results, keyword_results, top_k, alpha) ==
    LET semantic_docs == _format_search_results(semantic_results)
        keyword_docs == _format_search_results(keyword_results)
        sorted_docs == SortDesc(all_docs_of(semantic_docs, keyword_docs, alpha))
        kept == Take(sorted_docs, top_k)
    IN  [i \in 1..Len(kept) |-> kept[i].doc]

\* VectorRetriever._hybrid_search (the index query has not raised)
_hybrid_search(col, dist, query_text, top_k, alpha, get_fault) ==
    _combine_results(ChromaQuery(col, dist, top_k * 2),
                     _keyword_search(col, query_text, top_k * 2, get_fault),
                     top_k, alpha)

\* VectorRetriever._semantic_search (the index query has not raised)
_semantic_search(col, dist, top_k) ==
    _format_search_results(ChromaQuery(col, dist, top_k))

\* search, line 80
takes_hybrid_path(query_text, use_hybrid, enable_hybrid) ==
    use_hybrid /\ query_text # "" /\ enable_hybrid

\* VectorRetriever.search; query_fault = collection.query raises
search(col, dist, query_text, top_k, use_hybrid, enable_hybrid, alpha, query_fault, get_fault) ==
    IF query_fault THEN <<>>
    ELSE IF takes_hybrid_path(query_text, use_hybrid, enable_hybrid)
         THEN _hybrid_search(col, dist, query_text, top_k, alpha, get_fault)
         ELSE _semantic_search(col, dist, top_k)

----------------------------------------------------------------------------
(* Reranker *)

\* a rerank whose fallback returns the whole list, without the [:top_k] of lines 31 and 54
rerank_fallback_unsliced(documents, top_k, model_loaded, scores, predict_fault) ==
    IF ~model_loaded \/ documents = <<>> \/ predict_fault THEN documents
    ELSE LET scored_docs == [i \in 1..Len(documents) |->
                               [score |-> scores[i], doc |-> documents[i]]]
             kept == Take(SortDesc(scored_docs), top_k)
         IN  [i \in 1..Len(kept) |-> kept[i].doc]

\* a rerank that sorts by score ascending
rerank_ascending(documents, top_k, model_loaded, scores, predict_fault) ==
    IF ~model_loaded \/ documents = <<>> \/ predict_fault THEN Take(documents, top_k)
    ELSE LET scored_docs == [i \in 1..Len(documents) |->
                               [score |-> 0 - scores[i], doc |-> documents[i]]]
             kept == Take(SortDesc(scored_docs), top_k)
         IN  [i \in 1..Len(kept) |-> kept[i].doc]

\* Reranker.rerank; scores[i] is what the scorer gives candidate i, predict_fault = it raises
rerank(documents, top_k, model_loaded, scores, predict_fault) ==
    IF ~model_loaded \/ documents = <<>> \/ predict_fault THEN Take(documents, top_k)
    ELSE LET scored_docs == [i \in 1..Len(documents) |->
                               [score |-> scores[i], doc |-> documents[i]]]
             kept == Take(SortDesc(scored_docs), top_k)
         IN  [i \in 1..Len(kept) |-> kept[i].doc]

\* a turn that passes every candidate on when the reranker is not used
rerank_stage_uncut(rr, documents, top_k, scores, predict_fault) ==
    IF rr = "available"
    THEN rerank(documents, top_k, TRUE, scores, predict_fault)
    ELSE documents

\* chat and stream_chat, lines 97-100 and 142-145
rerank_stage(rr, documents, top_k, scores, predict_fault) ==
    IF rr = "available"
    THEN rerank(documents, top_k, TRUE, scores, predict_fault)
    ELSE Take(documents, top_k)

----------------------------------------------------------------------------
(* OllamaLLM *)

NOT_LOADED_MESSAGE == "Please load documents first before asking questions."

CHAT_ERROR_MESSAGE == "Sorry, I encountered an error while processing your question."

\* the parameters generate_response declares, line 33
generate_response_params == {"prompt", "context", "chat_history"}

\* the parameters stream_response declares, line 129
stream_response_params == {"prompt", "context", "chat_history", "conversation_context"}

\* the keyword arguments chat passes to generate_response, lines 112-117
chat_call_keywords == {"prompt", "context", "chat_history", "conversation_context"}

\* the keyword arguments stream_chat passes to stream_response, lines 156-161
stream_chat_call_keywords == {"prompt", "context", "chat_history", "conversation_context"}

\* Python raises TypeError on a keyword argument the callee does not declare
raises_type_error(keywords, params) == ~(keywords \subseteq params)

\* the characters str.strip() removes, of those that occur in the replies
Whitespace == {" ", "\n", "\t"}

RECURSIVE lstrip(_)
lstrip(s) ==
    IF Len(s) > 0 /\ CharAt(s, 1) \in Whitespace THEN lstrip(SubSeq(s, 2, Len(s))) ELSE s

RECURSIVE rstrip(_)
rstrip(s) ==
    IF Len(s) > 0 /\ CharAt(s, Len(s)) \in Whitespace
    THEN rstrip(SubSeq(s, 1, Len(s) - 1)) ELSE s

str_strip(s) == lstrip(rstrip(s))

TIMEOUT_MESSAGE == "Sorry, the request timed out. Please try again."

PROCESSING_ERROR_MESSAGE == "Sorry, I encountered an error while processing your request."

GENERATION_ERROR_MESSAGE == "Sorry, I encountered an error while generating a response."

\* a generate_response that returns the 'response' field as it came
generate_response_unstripped(reply) ==
    CASE reply.kind = "timeout" -> TIMEOUT_MESSAGE
      [] reply.kind = "exception" -> PROCESSING_ERROR_MESSAGE
      [] reply.status = 200 /\ reply.kind = "undecodable" -> PROCESSING_ERROR_MESSAGE
      [] reply.status = 200 -> Get(reply.response, "")
      [] OTHER -> GENERATION_ERROR_MESSAGE

\* OllamaLLM.generate_response once called; reply = what the HTTP request came to:
\* kind "timeout" = requests.post timed out, "exception" = it raised anything else (a
\* refused connection), "undecodable" = response.json() raises, "http" = a JSON reply
generate_response(reply) ==
    CASE reply.kind = "timeout" -> TIMEOUT_MESSAGE
      [] reply.kind = "exception" -> PROCESSING_ERROR_MESSAGE
      [] reply.status = 200 /\ reply.kind = "undecodable" -> PROCESSING_ERROR_MESSAGE
      [] reply.status = 200 -> str_strip(Get(reply.response, ""))
      [] OTHER -> GENERATION_ERROR_MESSAGE

RECURSIVE stream_lines(_, _, _)
\* stream_response, lines 152-161: what the lines from number i on make it yield;
\* the connection breaks when line number break_at is read (0: it does not break).
\* Line kinds: "empty"; "malformed" = json.loads raises JSONDecodeError; "undecodable" =
\* bytes that are not UTF-8, line.decode raises UnicodeDecodeError, which line 160 does
\* not catch and line 165 does; "json" = a JSON object
stream_lines(lines, i, break_at) ==
    IF i = break_at THEN <<"Error: connection broken">>
    ELSE IF i > Len(lines) THEN <<>>
    ELSE LET line == lines[i]
         IN  IF line.kind = "undecodable" THEN <<"Error: invalid start byte">>
             ELSE IF line.kind = "empty" \/ line.kind = "malformed"
             THEN stream_lines(lines, i + 1, break_at)
             ELSE (IF line.has_response THEN <<line.response>> ELSE <<>>)
                  \o (IF line.done THEN <<>> ELSE stream_lines(lines, i + 1, break_at))

\* OllamaLLM.stream_response: the increments it yields, in order
stream_response(reply) ==
    CASE reply.kind = "exception" -> <<"Error: connection refused">>
      [] reply.status = 200       -> stream_lines(reply.lines, 1, reply.break_at)
      [] OTHER                    -> <<"Error: Failed to get response from Ollama">>

RECURSIVE concat(_)
\* full_response += chunk, over the increments
concat(increments) ==
    IF increments = <<>> THEN "" ELSE Head(increments) \o concat(Tail(increments))

----------------------------------------------------------------------------
(* Chat history *)

isoformat(t) == "T" \o ToString(t)

\* _update_chat_history, lines 172-177
exchange_of(user_message, assistant_response, relevant_docs, now) ==
    [timestamp |-> isoformat(now),
     human     |-> user_message,
     assistant |-> assistant_response,
     sources   |-> [i \in 1..Len(relevant_docs) |-> relevant_docs[i].metadata]]

\* an update that keeps the oldest MAX_CHAT_HISTORY exchanges instead of the newest
_update_chat_history_keeps_oldest(history, user_message, assistant_response, relevant_docs, now) ==
    LET grown == Append(history,
                        exchange_of(user_message, assistant_response, relevant_docs, now))
    IN  IF Len(grown) > MAX_CHAT_HISTORY THEN Take(grown, MAX_CHAT_HISTORY) ELSE grown

\* RAGChatbot._update_chat_history
_update_chat_history(history, user_message, assistant_response, relevant_docs, now) ==
    LET grown == Append(history,
                        exchange_of(user_message, assistant_response, relevant_docs, now))
    IN  IF Len(grown) > MAX_CHAT_HISTORY THEN LastN(grown, MAX_CHAT_HISTORY) ELSE grown

\* json.dump of the history: the text of the file
json_dump(history) ==
    [kind |-> "json",
     body |-> [i \in 1..Len(history) |->
                 <<history[i].timestamp, history[i].human, history[i].assistant,
                   history[i].sources>>]]

\* a file whose text is not JSON
Garbage == [kind |-> "garbage", body |-> <<>>]

json_decodes(text) == text.kind = "json"

\* a json.load that loses the sources of every exchange
json_load_without_sources(text) ==
    [i \in 1..Len(text.body) |->
        [timestamp |-> text.body[i][1], human |-> text.body[i][2],
         assistant |-> text.body[i][3], sources |-> <<>>]]

\* json.load of a file that decodes
json_load(text) ==
    [i \in 1..Len(text.body) |->
        [timestamp |-> text.body[i][1], human |-> text.body[i][2],
         assistant |-> text.body[i][3], sources |-> text.body[i][4]]]

----------------------------------------------------------------------------
(* Ingestion and chunking *)

\* TextProcessor.chunk_text on one page: page.chunks is what the splitter cuts the
\* page's text into; each chunk gets its number in the page and the page's metadata
chunk_text(page, filename) ==
    [i \in 1..Len(page.chunks) |->
        [content  |-> page.chunks[i],
         metadata |-> [filename        |-> filename,
                       global_chunk_id |-> NoValue,
                       chunk_id        |-> i - 1,
                       page_number     |-> page.page_number]]]

\* process_documents, lines 86-88: the chunks of one page stamped from global_chunk_id on
stamp(chunks, global_chunk_id) ==
    [i \in 1..Len(chunks) |->
        [chunks[i] EXCEPT !.metadata.global_chunk_id = global_chunk_id + i - 1]]

RECURSIVE process_pages(_, _, _, _)
\* process_documents, lines 78-90: the pages of one document from number p on; a page
\* that raises ends the document, and what earlier pages added stays in all_chunks
process_pages(doc, p, all_chunks, global_chunk_id) ==
    IF p > Len(doc.pages) \/ doc.pages[p].raises
    THEN [all_chunks |-> all_chunks, global_chunk_id |-> global_chunk_id]
    ELSE LET chunks == stamp(chunk_text(doc.pages[p], doc.filename), global_chunk_id)
         IN  process_pages(doc, p + 1, all_chunks \o chunks, global_chunk_id + Len(chunks))

RECURSIVE process_from_counter_per_document(_, _, _, _)
\* a process_documents whose counter starts at 0 again in every document
process_from_counter_per_document(documents, d, all_chunks, global_chunk_id) ==
    IF d > Len(documents) THEN all_chunks
    ELSE LET r == process_pages(documents[d], 1, all_chunks, 0)
         IN  process_from_counter_per_document(documents, d + 1, r.all_chunks,
                                               r.global_chunk_id)

RECURSIVE process_from(_, _, _, _)
process_from(documents, d, all_chunks, global_chunk_id) ==
    IF d > Len(documents) THEN all_chunks
    ELSE LET r == process_pages(documents[d], 1, all_chunks, global_chunk_id)
         IN  process_from(documents, d + 1, r.all_chunks, r.global_chunk_id)

\* TextProcessor.process_documents
process_documents(documents) == process_from(documents, 1, <<>>, 0)

\* DocumentLoader.load_documents: the files of the directory that load, in order
loader_load_documents(entries) ==
    LET loaded == SelectSeq(entries, LAMBDA e : e.loads)
    IN  [i \in 1..Len(loaded) |-> loaded[i].doc]

\* RAGChatbot.load_documents, lines 38-41: raised = load_document raised on a single file
ingest(path) ==
    IF path.is_file
    THEN (IF path.entries[1].loads
          THEN [raised |-> FALSE, documents |-> <<path.entries[1].doc>>]
          ELSE [raised |-> TRUE, documents |-> <<>>])
    ELSE [raised |-> FALSE, documents |-> loader_load_documents(path.entries)]

\* a load that sets the flag before it embeds and indexes
load_documents_result_flag_first(initialized, col, path, embed_fault, add_fault, on_existing) ==
    LET got == ingest(path)
        chunks == process_documents(got.documents)
        added == add_documents(col, chunks, add_fault, on_existing)
        failed == [ok |-> FALSE, is_initialized |-> initialized, collection |-> col]
        failed_late == [ok |-> FALSE, is_initialized |-> TRUE, collection |-> col]
    IN  IF got.raised \/ got.documents = <<>> THEN failed
        ELSE IF chunks = <<>> THEN failed
        ELSE IF embed_fault THEN failed_late
        ELSE IF added.raised THEN failed_late
        ELSE [ok |-> TRUE, is_initialized |-> TRUE, collection |-> added.collection]

\* a load that clears the flag when it fails
load_documents_result_resets(initialized, col, path, embed_fault, add_fault, on_existing) ==
    LET got == ingest(path)
        chunks == process_documents(got.documents)
        added == add_documents(col, chunks, add_fault, on_existing)
        failed == [ok |-> FALSE, is_initialized |-> FALSE, collection |-> col]
    IN  IF got.raised \/ got.documents = <<>> THEN failed
        ELSE IF chunks = <<>> THEN failed
        ELSE IF embed_fault THEN failed
        ELSE IF added.raised THEN failed
        ELSE [ok |-> TRUE, is_initialized |-> TRUE, collection |-> added.collection]

\* RAGChatbot.load_documents: the value returned, the flag and the collection after it
load_documents_result(initialized, col, path, embed_fault, add_fault, on_existing) ==
    LET got == ingest(path)
        chunks == process_documents(got.documents)
        added == add_documents(col, chunks, add_fault, on_existing)
        failed == [ok |-> FALSE, is_initialized |-> initialized, collection |-> col]
    IN  IF got.raised \/ got.documents = <<>> THEN failed
        ELSE IF chunks = <<>> THEN failed
        ELSE IF embed_fault THEN failed
        ELSE IF added.raised THEN failed
        ELSE [ok |-> TRUE, is_initialized |-> TRUE, collection |-> added.collection]

\* VectorRetriever.clear_collection; fault = collection.get or collection.delete raises
clear_collection(col, fault) == IF fault THEN col ELSE <<>>

----------------------------------------------------------------------------
(* The orchestrator's query pipeline *)

\* chat lines 89-100, stream_chat lines 134-145: search for 2 * top_k, then rerank to top_k
relevant_docs_for(col, cfg, q) ==
    Bind(search(col, q.dist, q.message, q.top_k * 2, cfg.hybrid, cfg.hybrid,
                cfg.alpha, q.query_fault, q.get_fault),
         LAMBDA relevant_docs :
             rerank_stage(cfg.reranker, relevant_docs, q.top_k, q.scores, q.predict_fault))

\* a chat without the guard of lines 85-86
chat_result_unguarded(initialized, history, col, cfg, q, now) ==
    IF q.embed_fault
    THEN [response |-> CHAT_ERROR_MESSAGE, history |-> history, steps |-> <<"embed">>,
          docs |-> <<>>]
    ELSE [response |-> CHAT_ERROR_MESSAGE, history |-> history,
          steps |-> <<"embed", "search", "rerank">>,
          docs |-> relevant_docs_for(col, cfg, q)]

\* RAGChatbot.chat: what it returns, the history after it and the steps it ran
chat_result(initialized, history, col, cfg, q, now) ==
    IF ~initialized
    THEN [response |-> NOT_LOADED_MESSAGE, history |-> history, steps |-> <<>>,
          docs |-> <<>>]
    ELSE IF q.embed_fault
    THEN [response |-> CHAT_ERROR_MESSAGE, history |-> history, steps |-> <<"embed">>,
          docs |-> <<>>]
    ELSE Bind(relevant_docs_for(col, cfg, q), LAMBDA docs :
             IF raises_type_error(chat_call_keywords, generate_response_params)
             THEN [response |-> CHAT_ERROR_MESSAGE, history |-> history,
                   steps |-> <<"embed", "search", "rerank">>, docs |-> docs]
             ELSE LET response == generate_response(q.reply)
                  IN  [response |-> response,
                       history  |-> _update_chat_history(history, q.message, response, docs, now),
                       steps    |-> <<"embed", "search", "rerank", "prompt", "generate", "append">>,
                       docs     |-> docs])

\* stream_chat, run to its end: every increment it yields, and whether it then appends
stream_chat_run(initialized, col, cfg, q) ==
    IF ~initialized
    THEN [increments |-> <<NOT_LOADED_MESSAGE>>, appends |-> FALSE, steps |-> <<>>,
          docs |-> <<>>]
    ELSE IF q.embed_fault
    THEN [increments |-> <<"Error: embedding failed">>, appends |-> FALSE,
          steps |-> <<"embed">>, docs |-> <<>>]
    ELSE Bind(relevant_docs_for(col, cfg, q), LAMBDA docs :
             IF raises_type_error(stream_chat_call_keywords, stream_response_params)
             THEN [increments |-> <<"Error: unexpected keyword argument">>,
                   appends |-> FALSE, steps |-> <<"embed", "search", "rerank">>,
                   docs |-> docs]
             ELSE [increments |-> stream_response(q.reply), appends |-> TRUE,
                   steps |-> <<"embed", "search", "rerank", "prompt", "generate">>,
                   docs |-> docs])

\* a stream_chat with full_response = chunk in place of full_response += chunk
stream_chat_result_last_chunk(initialized, history, col, cfg, q, now, take) ==
    Bind(stream_chat_run(initialized, col, cfg, q), LAMBDA run :
        LET completed == take > Len(run.increments)
            yielded == Take(run.increments, take)
        IN  [yielded   |-> yielded,
             completed |-> completed,
             docs      |-> IF take = 0 THEN <<>> ELSE run.docs,
             steps     |-> IF take = 0 THEN <<>>
                           ELSE IF completed /\ run.appends THEN Append(run.steps, "append")
                           ELSE run.steps,
             history   |-> IF completed /\ run.appends
                           THEN _update_chat_history(history, q.message,
                                                     run.increments[Len(run.increments)], run.docs, now)
                           ELSE history])

\* a stream_chat that appends the whole answer when the consumer closes the generator
stream_chat_result_appends_on_close(initialized, history, col, cfg, q, now, take) ==
    Bind(stream_chat_run(initialized, col, cfg, q), LAMBDA run :
        LET completed == take > Len(run.increments)
            yielded == Take(run.increments, take)
        IN  [yielded   |-> yielded,
             completed |-> completed,
             docs      |-> IF take = 0 THEN <<>> ELSE run.docs,
             steps     |-> IF take = 0 THEN <<>>
                           ELSE IF completed /\ run.appends THEN Append(run.steps, "append")
                           ELSE run.steps,
             history   |-> IF take > 0 /\ run.appends
                           THEN _update_chat_history(history, q.message,
                                                     concat(run.increments), run.docs, now)
                           ELSE history])

\* RAGChatbot.stream_chat with a consumer that asks for `take` increments: the generator
\* runs only as far as it is asked, and line 165 is reached only when the consumer has
\* asked once more after the last increment
stream_chat_result(initialized, history, col, cfg, q, now, take) ==
    Bind(stream_chat_run(initialized, col, cfg, q), LAMBDA run :
        LET completed == take > Len(run.increments)
            yielded == Take(run.increments, take)
        IN  [yielded   |-> yielded,
             completed |-> completed,
             docs      |-> IF take = 0 THEN <<>> ELSE run.docs,
             steps     |-> IF take = 0 THEN <<>>
                           ELSE IF completed /\ run.appends THEN Append(run.steps, "append")
                           ELSE run.steps,
             history   |-> IF completed /\ run.appends
                           THEN _update_chat_history(history, q.message,
                                                     concat(run.increments), run.docs, now)
                           ELSE history])

\* RAGChatbot.get_relevant_sources: the list it returns
relevant_sources_result(initialized, col, cfg, q) ==
    IF ~initialized \/ q.embed_fault THEN <<>>
    ELSE search(col, q.dist, "", q.top_k, TRUE, cfg.hybrid, cfg.alpha, q.query_fault,
                q.get_fault)

----------------------------------------------------------------------------
(* Inputs *)

Page(n, chunks) == [page_number |-> n, chunks |-> chunks, raises |-> FALSE]

\* a page whose processing raises (a page record that lacks a key)
BadPage(n) == [page_number |-> n, chunks |-> <<>>, raises |-> TRUE]

DocA == [filename |-> "a.pdf", pages |-> <<Page(1, <<"the cat sat">>), Page(2, <<"Dog and cat">>)>>]

DocB == [filename |-> "b.pdf", pages |-> <<Page(1, <<"a dog barks">>)>>]

\* a PDF without text: no page is kept
DocEmpty == [filename |-> "e.pdf", pages |-> <<>>]

DocBad == [filename |-> "x.pdf", pages |-> <<Page(1, <<"cat nap">>), BadPage(2)>>]

Loads(doc) == [loads |-> TRUE, doc |-> doc]

Corrupted == [loads |-> FALSE, doc |-> DocEmpty]

\* what a path given to load_documents holds
Paths ==
    { [is_file |-> TRUE,  entries |-> <<Loads(DocA)>>],
      [is_file |-> TRUE,  entries |-> <<Corrupted>>],
      [is_file |-> FALSE, entries |-> <<>>],
      [is_file |-> FALSE, entries |-> <<Corrupted>>],
      [is_file |-> FALSE, entries |-> <<Loads(DocEmpty)>>],
      [is_file |-> FALSE, entries |-> <<Loads(DocA), Corrupted, Loads(DocB)>>],
      [is_file |-> FALSE, entries |-> <<Loads(DocBad), Loads(DocB)>>] }

RawChunk(filename, gid, cid, content) ==
    [content  |-> content,
     metadata |-> [filename |-> filename, global_chunk_id |-> gid, chunk_id |-> cid,
                   page_number |-> NoValue]]

\* batches handed to VectorRetriever.add_documents by a caller of the retriever; the
\* first has no global ids, as the documents of tests/test_retriever.py
Batches ==
    { <<RawChunk("f.txt", NoValue, 0, "cat nap"), RawChunk("f.txt", NoValue, 1, "dog run")>>,
      <<RawChunk("a.pdf", 0, 0, "the cat sat"), RawChunk("a.pdf", 1, 0, "Dog and cat")>>,
      <<RawChunk("b.pdf", 0, 0, "a dog barks")>> }

Messages == {"cat", "the Dog and cat"}

AlphaValues == {0, 5, 10}

RerankerStates == {"none", "unavailable", "available"}

\* distances the index gives the n stored chunks for one query vector: all equal to 0,
\* growing, shrinking to 0, all above 1
DistanceProfiles(n) ==
    { [i \in 1..n |-> 0], [i \in 1..n |-> 2 * i], [i \in 1..n |-> 2 * (n - i)],
      [i \in 1..n |-> 12] }

\* scores the pairwise scorer gives the candidates: all equal, growing
ScoreProfiles == { [i \in 1..(2 * MaxTopK) |-> 0], [i \in 1..(2 * MaxTopK) |-> i] }

JsonLine(text, done) ==
    [kind |-> "json", has_response |-> TRUE, response |-> text, done |-> done]

MalformedLine == [kind |-> "malformed", has_response |-> FALSE, response |-> "", done |-> FALSE]

StreamedLines == <<JsonLine("he", FALSE), MalformedLine, JsonLine("llo", TRUE), JsonLine("x", FALSE)>>

Reply(kind, status, break_at) ==
    [kind |-> kind, status |-> status, response |-> " hello ", lines |-> StreamedLines,
     break_at |-> break_at]

\* what the request to the generation server comes to
Replies ==
    { Reply("http", 200, 0), Reply("http", 200, 3), Reply("http", 500, 0),
      Reply("exception", 0, 0), Reply("timeout", 0, 0) }

\* at most one collaborator fails in one call
FaultCases == {"none", "embed", "query", "get", "predict"}

Query(message, top_k, dist, scores, fault, reply) ==
    [message |-> message, top_k |-> top_k, dist |-> dist, scores |-> scores,
     embed_fault |-> fault = "embed", query_fault |-> fault = "query",
     get_fault |-> fault = "get", predict_fault |-> fault = "predict", reply |-> reply]

Queries(n) ==
    { Query(m, k, d, sc, f, r) :
        m \in Messages, k \in 1..MaxTopK, d \in DistanceProfiles(n), sc \in ScoreProfiles,
        f \in FaultCases, r \in Replies }

\* a history file written by another session: one exchange more than MAX_CHAT_HISTORY
OldExchange == [timestamp |-> "T0", human |-> "old", assistant |-> "older", sources |-> <<>>]

OldFile == json_dump([i \in 1..(MAX_CHAT_HISTORY + 1) |-> OldExchange])

FileNames == {"old.json", "bad.json", "missing.json"}

NoFile == [kind |-> "none", body |-> <<>>]

Config == [alpha |-> HYBRID_ALPHA, hybrid |-> ENABLE_HYBRID_SEARCH, reranker |-> reranker]

----------------------------------------------------------------------------
(* State *)

NoCall ==
    [op |-> "__init__", ok |-> FALSE, was_ready |-> FALSE, message |-> "", top_k |-> 0,
     response |-> "", yielded |-> <<>>, completed |-> FALSE, steps |-> <<>>,
     docs |-> <<>>, hybrid |-> FALSE, semantic_docs |-> <<>>, keyword_docs |-> <<>>,
     all_docs |-> <<>>, path |-> "", fault |-> "none", candidates |-> <<>>,
     scores |-> <<>>, window_size |-> 0, context |-> <<>>, conversation_context |-> "",
     history_given |-> FALSE, parts |-> <<>>, documents |-> <<>>,
     reply |-> Reply("http", 200, 0)]

MaxLines == 3

\* RAGChatbot.__init__ and VectorRetriever._initialize_db: a collection of the given name
\* that is on disk is opened as it is
PersistedCollections ==
    { <<>>, add_documents(<<>>, process_documents(<<DocB>>), FALSE, "skip").collection }

\* the configurations the orchestrator is run under: hybrid search with a reranker, and
\* semantic search alone
Configurations ==
    { [alpha |-> 5, hybrid |-> TRUE, reranker |-> "available"],
      [alpha |-> 0, hybrid |-> FALSE, reranker |-> "none"] }

InitConfig(configurations) ==
    \E c \in configurations :
        /\ HYBRID_ALPHA = c.alpha
        /\ ENABLE_HYBRID_SEARCH = c.hybrid
        /\ reranker = c.reranker

\* RAGChatbot.__init__, with the files that are on disk
InitWith(configurations, collections) ==
    /\ InitConfig(configurations)
    /\ is_initialized = FALSE
    /\ collection \in collections
    /\ chat_history = <<>>
    /\ files = [f \in FileNames |->
                  CASE f = "old.json" -> OldFile
                    [] f = "bad.json" -> Garbage
                    [] OTHER          -> NoFile]
    /\ clock = 1
    /\ last = NoCall
    /\ loaded_since_clear = FALSE
    /\ appended = <<>>

Init == InitWith(Configurations, {<<>>})

----------------------------------------------------------------------------------------------------------------------------------------
(* The orchestrator's operations *)

config_vars == <<HYBRID_ALPHA, ENABLE_HYBRID_SEARCH, reranker>>

LoadFaults == {"none", "embed", "add"}

LoadDocuments(paths) ==
    \E path \in paths, fault \in LoadFaults, on_existing \in {"raise", "skip"} :
        LET r == load_documents_result(is_initialized, collection, path,
                                       fault = "embed", fault = "add", on_existing)
        IN  /\ is_initialized' = r.is_initialized
            /\ collection' = r.collection
            /\ loaded_since_clear' = (loaded_since_clear \/ r.ok)
            /\ last' = [NoCall EXCEPT !.op = "load_documents", !.ok = r.ok,
                                      !.was_ready = is_initialized, !.fault = fault,
                                      !.path = IF path.is_file THEN "file" ELSE "directory",
                                      !.documents = path.entries]
            /\ UNCHANGED <<chat_history, files, clock, config_vars, appended>>

\* a clear_database that starts a new conversation as well
clear_database_and_history ==
    \E fault \in BOOLEAN :
        /\ collection' = clear_collection(collection, fault)
        /\ is_initialized' = FALSE
        /\ loaded_since_clear' = FALSE
        /\ chat_history' = <<>>
        /\ last' = [NoCall EXCEPT !.op = "clear_database", !.was_ready = is_initialized]
        /\ UNCHANGED <<files, clock, config_vars, appended>>

\* RAGChatbot.clear_database
clear_database ==
    \E fault \in BOOLEAN :
        /\ collection' = clear_collection(collection, fault)
        /\ is_initialized' = FALSE
        /\ loaded_since_clear' = FALSE
        /\ last' = [NoCall EXCEPT !.op = "clear_database", !.was_ready = is_initialized]
        /\ UNCHANGED <<chat_history, files, clock, config_vars, appended>>

Chat(queries) ==
    /\ clock <= MaxTurns
    /\ \E q \in queries :
        \E r \in {chat_result(is_initialized, chat_history, collection, Config, q, clock)} :
            /\ chat_history' = r.history
            /\ clock' = IF "append" \in Range(r.steps) THEN clock + 1 ELSE clock
            /\ last' = [NoCall EXCEPT !.op = "chat", !.was_ready = is_initialized,
                                      !.message = q.message, !.top_k = q.top_k,
                                      !.response = r.response, !.completed = TRUE,
                                      !.steps = r.steps, !.docs = r.docs]
            /\ UNCHANGED <<is_initialized, collection, files, config_vars,
                           loaded_since_clear, appended>>

\* a consumer asks for 0, 1, ... increments, or for one more than the stream can yield
TakeChoices == 0..(Len(StreamedLines) + 1)

StreamChat(queries) ==
    /\ clock <= MaxTurns
    /\ \E q \in queries, take \in TakeChoices :
        \E r \in {stream_chat_result(is_initialized, chat_history, collection, Config, q,
                                     clock, take)} :
            /\ chat_history' = r.history
            /\ clock' = IF "append" \in Range(r.steps) THEN clock + 1 ELSE clock
            /\ last' = [NoCall EXCEPT !.op = "stream_chat", !.was_ready = is_initialized,
                                      !.message = q.message, !.top_k = q.top_k,
                                      !.yielded = r.yielded, !.completed = r.completed,
                                      !.steps = r.steps, !.docs = r.docs]
            /\ UNCHANGED <<is_initialized, collection, files, config_vars,
                           loaded_since_clear, appended>>

GetRelevantSources(queries) ==
    \E q \in queries :
        /\ last' = [NoCall EXCEPT !.op = "get_relevant_sources",
                                  !.was_ready = is_initialized, !.message = q.message,
                                  !.top_k = q.top_k,
                                  !.docs = relevant_sources_result(is_initialized, collection,
                                                                   Config, q)]
        /\ UNCHANGED <<is_initialized, collection, chat_history, files, clock, config_vars,
                       loaded_since_clear, appended>>

\* RAGChatbot.clear_chat_history
clear_chat_history ==
    /\ chat_history' = <<>>
    /\ last' = [NoCall EXCEPT !.op = "clear_chat_history", !.was_ready = is_initialized]
    /\ UNCHANGED <<is_initialized, collection, files, clock, config_vars,
                   loaded_since_clear, appended>>

\* save_chat_history, lines 190-194: the file written to; second = the wall clock that
\* strftime("%Y%m%d_%H%M%S") renders
save_path(filename, second) ==
    IF filename = "" THEN "chat_history_" \o ToString(second) \o ".json" ELSE filename

\* RAGChatbot.save_chat_history: fault "open" = the file cannot be opened, "write" = the
\* writing breaks off and leaves a text that is not JSON
save_chat_history_result(history, disk, filename, second, fault) ==
    LET path == save_path(filename, second)
        written == IF fault = "write" THEN Garbage ELSE json_dump(history)
    IN  IF fault = "open" THEN [path |-> "", files |-> disk]
        ELSE [path  |-> IF fault = "write" THEN "" ELSE path,
              files |-> [f \in DOMAIN disk \cup {path} |-> IF f = path THEN written ELSE disk[f]]]

SaveFaults == {"none", "open", "write"}

SaveChatHistory(filenames, seconds) ==
    \E filename \in filenames, second \in seconds, fault \in SaveFaults :
        LET r == save_chat_history_result(chat_history, files, filename, second, fault)
        IN  /\ files' = r.files
            /\ last' = [NoCall EXCEPT !.op = "save_chat_history", !.ok = r.path # "",
                                      !.was_ready = is_initialized, !.response = r.path,
                                      !.fault = fault]
            /\ UNCHANGED <<is_initialized, collection, chat_history, clock, config_vars,
                           loaded_since_clear, appended>>

\* a load_chat_history that empties the history before it reads the file
load_chat_history_result_clears_first(history, disk, filepath) ==
    IF filepath \notin DOMAIN disk \/ disk[filepath] = NoFile \/ ~json_decodes(disk[filepath])
    THEN [ok |-> FALSE, history |-> <<>>]
    ELSE [ok |-> TRUE, history |-> json_load(disk[filepath])]

\* RAGChatbot.load_chat_history: the value returned and the history after it
load_chat_history_result(history, disk, filepath) ==
    IF filepath \notin DOMAIN disk \/ disk[filepath] = NoFile \/ ~json_decodes(disk[filepath])
    THEN [ok |-> FALSE, history |-> history]
    ELSE [ok |-> TRUE, history |-> json_load(disk[filepath])]

load_chat_history ==
    \E filepath \in DOMAIN files :
        LET r == load_chat_history_result(chat_history, files, filepath)
        IN  /\ chat_history' = r.history
            /\ last' = [NoCall EXCEPT !.op = "load_chat_history", !.ok = r.ok,
                                      !.was_ready = is_initialized, !.message = filepath]
            /\ UNCHANGED <<is_initialized, collection, files, clock, config_vars,
                           loaded_since_clear, appended>>

----------------------------------------------------------------------------
(* Spec: one orchestrator, every operation, callers that use the default top_k *)

\* the paths of Paths that hold at most one document
SinglePaths == {p \in Paths : Len(p.entries) <= 1}

GrowingDistances(n) == [i \in 1..n |-> 2 * i]

GrowingScores == [i \in 1..(2 * DEFAULT_TOP_K) |-> i]

TurnQueries(n) ==
    { Query("cat", DEFAULT_TOP_K, GrowingDistances(n), GrowingScores, f, r) :
        f \in {"none", "embed"},
        r \in {Reply("http", 200, 0), Reply("http", 200, 3), Reply("http", 500, 0)} }

load_documents == LoadDocuments(SinglePaths)

chat == Chat(TurnQueries(Len(collection)))

stream_chat == StreamChat(TurnQueries(Len(collection)))

get_relevant_sources == GetRelevantSources(TurnQueries(Len(collection)))

save_chat_history == SaveChatHistory({""}, {1})

Next ==
    \/ load_documents
    \/ clear_database
    \/ chat
    \/ stream_chat
    \/ get_relevant_sources
    \/ clear_chat_history
    \/ save_chat_history
    \/ load_chat_history

Spec == Init /\ [][Next]_vars

----------------------------------------------------------------------------
(* Claims about the orchestrator, under Spec *)

IsPrefix(s, t) == Len(s) <= Len(t) /\ s = SubSeq(t, 1, Len(s))

IsTurn(call) == call.op \in {"chat", "stream_chat"}

\* C1: while the orchestrator is not READY, chat returns the fixed "load documents first"
\* message, stream_chat yields that one message and nothing else (all of it once the
\* stream is consumed to its end), the chat history is left as it was and no step of
\* the query pipeline runs.
C1_NotReadyIsRejected ==
    [][ (IsTurn(last') /\ ~is_initialized) =>
            /\ chat_history' = chat_history
            /\ last'.steps = <<>>
            /\ last'.docs = <<>>
            /\ last'.op = "chat" => last'.response = NOT_LOADED_MESSAGE
            /\ last'.op = "stream_chat" =>
                  /\ IsPrefix(last'.yielded, <<NOT_LOADED_MESSAGE>>)
                  /\ last'.completed => last'.yielded = <<NOT_LOADED_MESSAGE>> ]_vars

\* C1 witness: a chat call rejected after clear_database, with exchanges in the history
C1_Witness ==
    /\ last.op = "chat" /\ ~last.was_ready
    /\ last.response = NOT_LOADED_MESSAGE
    /\ collection # <<>> /\ Len(chat_history) > 0

\* the text handed back to the caller of a turn
HandedBack(call) == IF call.op = "chat" THEN call.response ELSE concat(call.yielded)

\* C2: every query accepted in state READY whose retrieval ran and whose answer was
\* handed back whole, through chat as well as through stream_chat, has run retrieval,
\* rerank, prompt assembly and generation and has appended exactly one Exchange, whose
\* human field is the message and whose assistant field is the text handed back; the
\* history has grown by one, up to MAX_CHAT_HISTORY.
C2_ReadyTurnAppends ==
    [][ (IsTurn(last') /\ is_initialized /\ last'.completed /\ "search" \in Range(last'.steps)) =>
            /\ {"search", "rerank", "prompt", "generate"} \subseteq Range(last'.steps)
            /\ Len(chat_history') = Min(Len(chat_history) + 1, MAX_CHAT_HISTORY)
            /\ chat_history'[Len(chat_history')].human = last'.message
            /\ chat_history'[Len(chat_history')].assistant = HandedBack(last') ]_vars

\* C4: the chat history never holds more than MAX_CHAT_HISTORY exchanges.
C4_HistoryBounded == Len(chat_history) <= MAX_CHAT_HISTORY

\* C5: a load_documents call that returns False leaves the initialization flag and the
\* indexed chunks as they were before the call.
C5_FailedLoadChangesNothing ==
    [][ (last'.op = "load_documents" /\ ~last'.ok) =>
            (is_initialized' = is_initialized /\ collection' = collection) ]_vars

\* C5 witness: a load has failed on an orchestrator that is READY and holds chunks
C5_Witness ==
    last.op = "load_documents" /\ ~last.ok /\ last.was_ready /\ collection # <<>>

\* C6: after clear_database the index holds nothing and the orchestrator is
\* UNINITIALIZED, whatever the index operations came to.
C6_ClearedIsEmpty ==
    last.op = "clear_database" => (collection = <<>> /\ ~is_initialized)

\* C7: the orchestrator is READY exactly when a load_documents call has returned True
\* since construction or since the last clear_database.
C7_ReadyIffLoaded == is_initialized = loaded_since_clear

\* C7 witness: a load that failed on a READY orchestrator has left it READY
C7_Witness ==
    last.op = "load_documents" /\ ~last.ok /\ is_initialized /\ loaded_since_clear

\* C14: a stream_chat call in state READY that reached the generation step and was
\* consumed to its end has appended one Exchange whose assistant text is the
\* concatenation, in order, of every increment yielded, the increment that reports a
\* failure of the generation stream included.
C14_StreamedTextIsRecorded ==
    [][ (last'.op = "stream_chat" /\ is_initialized /\ last'.completed
            /\ "generate" \in Range(last'.steps)) =>
            /\ "append" \in Range(last'.steps)
            /\ Len(chat_history') = Min(Len(chat_history) + 1, MAX_CHAT_HISTORY)
            /\ chat_history'[Len(chat_history')].human = last'.message
            /\ chat_history'[Len(chat_history')].assistant = concat(last'.yielded) ]_vars

\* C14 witness: the generation stream broke after one increment; the increment and the
\* error text are both in the Exchange
C14_Witness ==
    /\ last.op = "stream_chat" /\ last.was_ready /\ last.completed
    /\ last.yielded = <<"he", "Error: connection broken">>
    /\ chat_history # <<>>
    /\ chat_history[Len(chat_history)].assistant = "heError: connection broken"

\* C15: a stream_chat whose consumer stops after k increments leaves the
\* initialization flag, the index and the earlier exchanges as they were, and the
\* history is unchanged or has gained one Exchange whose assistant text is the
\* concatenation of the k increments.
C15_CancelledStreamIsHarmless ==
    [][ (last'.op = "stream_chat" /\ ~last'.completed) =>
            /\ is_initialized' = is_initialized
            /\ collection' = collection
            /\ \/ chat_history' = chat_history
               \/ /\ Len(chat_history') = Len(chat_history) + 1
                  /\ SubSeq(chat_history', 1, Len(chat_history)) = chat_history
                  /\ chat_history'[Len(chat_history')].assistant = concat(last'.yielded) ]_vars

\* C15 witness: a READY orchestrator with exchanges in its history, a stream cancelled
\* after its first increment
C15_Witness ==
    /\ last.op = "stream_chat" /\ last.was_ready /\ ~last.completed
    /\ last.yielded = <<"he">>
    /\ Len(chat_history) > 0

C20_FailureKeepsHistory ==
    [][ /\ last'.op = "save_chat_history" =>
              /\ chat_history' = chat_history
              /\ last'.fault # "none" => (~last'.ok /\ last'.response = "")
        /\ last'.op = "load_chat_history" =>
              /\ (files[last'.message] = NoFile \/ files[last'.message] = Garbage)
                    => ~last'.ok
              /\ ~last'.ok => chat_history' = chat_history ]_vars

\* C20 witness: a load of a file that does not decode has failed on a history that
\* holds exchanges
C20_Witness ==
    /\ last.op = "load_chat_history" /\ ~last.ok /\ last.message = "bad.json"
    /\ chat_history # <<>>

\* a save whose writing broke off has returned None and left the exchanges in memory
C20_FailedSaveCase ==
    /\ last.op = "save_chat_history" /\ last.fault = "write" /\ ~last.ok
    /\ chat_history # <<>>

----------------------------------------------------------------------------
(* SpecHistory: exchanges appended one after another to a history that starts empty *)

Responses == {"hello"}

\* RAGChatbot._update_chat_history called with one exchange; appended records every
\* exchange handed to it since the history was empty
UpdateChatHistory ==
    /\ Len(appended) < MaxAppends
    /\ \E user_message \in Messages, assistant_response \in Responses :
        /\ chat_history' = _update_chat_history(chat_history, user_message,
                                                assistant_response, <<>>, clock)
        /\ appended' = Append(appended,
                              exchange_of(user_message, assistant_response, <<>>, clock))
        /\ clock' = clock + 1
        /\ last' = [NoCall EXCEPT !.op = "_update_chat_history", !.message = user_message,
                                  !.response = assistant_response]
        /\ UNCHANGED <<is_initialized, collection, files, config_vars, loaded_since_clear>>

InitHistory == InitWith({[alpha |-> 5, hybrid |-> TRUE, reranker |-> "none"]}, {<<>>})

NextHistory == UpdateChatHistory

SpecHistory == InitHistory /\ [][NextHistory]_vars

\* C3: after N appends to an empty history the history is the last MAX_CHAT_HISTORY of
\* the N exchanges in the order they were appended, and all N of them while
\* N <= MAX_CHAT_HISTORY; its length is MAX_CHAT_HISTORY exactly once N exceeds it.
C3_HistoryIsLastH ==
    /\ chat_history = LastN(appended, MAX_CHAT_HISTORY)
    /\ Len(appended) <= MAX_CHAT_HISTORY => chat_history = appended
    /\ Len(appended) > MAX_CHAT_HISTORY => Len(chat_history) = MAX_CHAT_HISTORY

\* C3 witness: two exchanges more than MAX_CHAT_HISTORY appended, the two oldest evicted
C3_Witness ==
    /\ Len(appended) = MAX_CHAT_HISTORY + 2
    /\ Len(chat_history) = MAX_CHAT_HISTORY
    /\ chat_history[1] = appended[3]
    /\ chat_history[1] # appended[1]

----------------------------------------------------------------------------
(* SpecSearch: a caller of VectorRetriever adds batches and searches *)

\* the hybrid weight and switch the retriever reads from the configuration
SearchConfigurations ==
    { [alpha |-> a, hybrid |-> TRUE, reranker |-> "none"] : a \in AlphaValues }
    \cup { [alpha |-> 5, hybrid |-> FALSE, reranker |-> "none"] }

InitSearch == InitWith(SearchConfigurations, {<<>>})

\* VectorRetriever.add_documents called with one batch
AddDocuments ==
    \E batch \in Batches, fault \in BOOLEAN, on_existing \in {"raise", "skip"} :
        LET r == add_documents(collection, batch, fault, on_existing)
        IN  /\ collection' = r.collection
            /\ last' = [NoCall EXCEPT !.op = "add_documents", !.ok = ~r.raised]
            /\ UNCHANGED <<is_initialized, chat_history, files, clock, config_vars,
                           loaded_since_clear, appended>>

SearchTexts == Messages \cup {""}

SearchFaults == {"none", "query", "get"}

\* VectorRetriever.search called once; the call record keeps the two candidate lists and
\* the dict all_docs of _combine_results when the hybrid path ran
Search ==
    \E query_text \in SearchTexts, top_k \in 1..MaxTopK,
       dist \in DistanceProfiles(Len(collection)), use_hybrid \in BOOLEAN,
       fault \in SearchFaults :
        LET hybrid == fault # "query"
                      /\ takes_hybrid_path(query_text, use_hybrid, ENABLE_HYBRID_SEARCH)
            semantic_docs == _format_search_results(ChromaQuery(collection, dist, top_k * 2))
            keyword_docs == _format_search_results(
                                _keyword_search(collection, query_text, top_k * 2,
                                                fault = "get"))
        IN  /\ last' = [NoCall EXCEPT
                          !.op = "search", !.message = query_text, !.top_k = top_k,
                          !.hybrid = hybrid,
                          !.path = IF takes_hybrid_path(query_text, use_hybrid,
                                                        ENABLE_HYBRID_SEARCH)
                                   THEN "hybrid" ELSE "semantic",
                          !.fault = IF fault = "get" /\ ~hybrid THEN "none" ELSE fault,
                          !.semantic_docs = IF hybrid THEN semantic_docs ELSE <<>>,
                          !.keyword_docs = IF hybrid THEN keyword_docs ELSE <<>>,
                          !.all_docs = IF hybrid
                                       THEN all_docs_of(semantic_docs, keyword_docs,
                                                        HYBRID_ALPHA)
                                       ELSE <<>>,
                          !.docs = search(collection, dist, query_text, top_k, use_hybrid,
                                          ENABLE_HYBRID_SEARCH, HYBRID_ALPHA,
                                          fault = "query", fault = "get")]
            /\ UNCHANGED <<is_initialized, collection, chat_history, files, clock,
                           config_vars, loaded_since_clear, appended>>

NextSearch == AddDocuments \/ Search

SpecSearch == InitSearch /\ [][NextSearch]_vars

\* two candidates are the same stored chunk
SameChunk(a, b) == a.content = b.content /\ a.metadata = b.metadata

InList(docs, doc) == \E i \in 1..Len(docs) : SameChunk(docs[i], doc)

Occurrences(docs, doc) == Cardinality({i \in 1..Len(docs) : SameChunk(docs[i], doc)})

\* the entries of all_docs that hold the chunk
EntriesOf(entries, doc) == {i \in 1..Len(entries) : SameChunk(entries[i].doc, doc)}

\* C8: in a hybrid search, a chunk that is in the semantic list and in the lexical list
\* has one entry in the fused set, whose score is its semantic contribution plus its
\* lexical contribution; it is at most once in the list returned, and exactly once when
\* its entry is among the top_k of the fused set.
C8_BothListsOneEntry ==
    (last.op = "search" /\ last.hybrid) =>
        \A i \in 1..Len(last.semantic_docs) :
            LET doc == last.semantic_docs[i]
                ranked == SortDesc(last.all_docs)
            IN  InList(last.keyword_docs, doc) =>
                    /\ Cardinality(EntriesOf(last.all_docs, doc)) = 1
                    /\ \A e \in EntriesOf(last.all_docs, doc) :
                          last.all_docs[e].score =
                              semantic_score(HYBRID_ALPHA, doc) + keyword_bonus(HYBRID_ALPHA)
                    /\ Occurrences(last.docs, doc) <= 1
                    /\ EntriesOf(Take(ranked, last.top_k), doc) # {}
                          => Occurrences(last.docs, doc) = 1

\* the score under which the fused set holds a candidate: all_docs[doc_id]['score']
FusedScore(entries, doc) == entries[KeyAt(entries, fusion_key(doc))].score

LexicalKeys(docs) == {fusion_key(docs[i]) : i \in 1..Len(docs)}

C10_AtMostTopK ==
    last.op = "search" =>
        /\ Len(last.docs) <= last.top_k
        /\ collection = <<>> => last.docs = <<>>

\* C10 witness: a hybrid search over more chunks than top_k has returned top_k results
C10_Witness ==
    /\ last.op = "search" /\ last.hybrid
    /\ Len(last.all_docs) > last.top_k
    /\ Len(last.docs) = last.top_k

\* a search on the semantic path has returned top_k results out of more chunks
C10_SemanticCase ==
    /\ last.op = "search" /\ ~last.hybrid
    /\ Len(collection) > last.top_k
    /\ Len(last.docs) = last.top_k

\* the lexical matches of the last search: what _keyword_search finds for its text
LexicalMatches ==
    _format_search_results(_keyword_search(collection, last.message, last.top_k * 2, FALSE))

\* C11: in a hybrid search, when the index query fails the lexical matches are returned
\* (the first top_k of them), and when the corpus scan fails the semantic matches are
\* returned (the top_k best of the fused set, all of them semantic candidates).
C11_OtherPathSurvives ==
    (last.op = "search" /\ last.path = "hybrid") =>
        /\ last.fault = "query" =>
              /\ Len(last.docs) = Min(last.top_k, Len(LexicalMatches))
              /\ \A i \in 1..Len(last.docs) : SameChunk(last.docs[i], LexicalMatches[i])
        /\ last.fault = "get" =>
              /\ last.keyword_docs = <<>>
              /\ Len(last.docs) = Min(last.top_k, Len(last.all_docs))
              /\ \A i \in 1..Len(last.docs) : InList(last.semantic_docs, last.docs[i])

\* the half of C11 about a failing corpus scan has happened: semantic matches returned
C11_ScanFailureCase ==
    /\ last.op = "search" /\ last.path = "hybrid" /\ last.fault = "get"
    /\ LexicalMatches # <<>>
    /\ last.docs # <<>>

\* C24: in a hybrid search the fused score of every chunk that carries a global id
\* lies between 0 and alpha + 0.8 * (1 - alpha): a semantic candidate contributes
\* alpha * (1 - d) for a distance d within [0, 1] and a lexical candidate the constant
\* (1 - alpha) * 0.8.
C24_FusedScoreBounds ==
    (last.op = "search" /\ last.hybrid) =>
        \A i \in 1..Len(last.all_docs) :
            last.all_docs[i].doc.metadata.global_chunk_id # Absent =>
                /\ last.all_docs[i].score >= 0
                /\ last.all_docs[i].score
                      <= HYBRID_ALPHA * ONE + KEYWORD_WEIGHT * (ONE - HYBRID_ALPHA)

\* the worked case of C24: at alpha = 0.5 a chunk at distance 0.2 that is in both lists
\* has the fused score 0.8
C24_WorkedCase ==
    /\ last.op = "search" /\ last.hybrid /\ HYBRID_ALPHA = 5
    /\ \E i \in 1..Len(last.all_docs) :
          /\ last.all_docs[i].doc.distance = 2
          /\ InList(last.semantic_docs, last.all_docs[i].doc)
          /\ InList(last.keyword_docs, last.all_docs[i].doc)
          /\ last.all_docs[i].score = 80

\* the scores of C24 as the code computes them, for chunks that carry a global id: the
\* semantic contribution for the raw distance plus the constant lexical contribution
C24_ContributionsAdd ==
    (last.op = "search" /\ last.hybrid) =>
        \A i \in 1..Len(last.all_docs) :
            LET doc == last.all_docs[i].doc
            IN  doc.metadata.global_chunk_id # Absent =>
                    last.all_docs[i].score =
                        (IF doc.distance # NoValue /\ InList(last.semantic_docs, doc)
                         THEN HYBRID_ALPHA * (ONE - doc.distance) ELSE 0)
                        + (IF InList(last.keyword_docs, doc)
                           THEN (ONE - HYBRID_ALPHA) * KEYWORD_WEIGHT ELSE 0)

\* the deduplicated union of the two candidate lists of the last search: the semantic
\* candidates in index order, then the lexical candidates that are no semantic
\* candidate, in lexical rank order
CandidateUnion ==
    last.semantic_docs
    \o SelectSeq(last.keyword_docs, LAMBDA d : ~InList(last.semantic_docs, d))

\* the union ranked by fused score, candidates of equal score in the order of the union
RankedUnion ==
    SortDesc([i \in 1..Len(CandidateUnion) |->
                [score |-> FusedScore(last.all_docs, CandidateUnion[i]),
                 doc   |-> CandidateUnion[i]]])

\* C25: the list a hybrid search returns is the top_k best of the deduplicated union of
\* the semantic and the lexical candidates: fused scores do not increase along it, no
\* candidate left out scores strictly higher than one returned, and candidates of equal
\* score stand semantic candidates first (index order), then lexical-only candidates
\* (lexical rank order).
C25_TopOfFusedUnion ==
    (last.op = "search" /\ last.hybrid) =>
        /\ \A i, j \in 1..Len(last.docs) :
              i < j => FusedScore(last.all_docs, last.docs[i])
                         >= FusedScore(last.all_docs, last.docs[j])
        /\ \A c \in 1..Len(CandidateUnion) :
              ~InList(last.docs, CandidateUnion[c]) =>
                  \A i \in 1..Len(last.docs) :
                      FusedScore(last.all_docs, CandidateUnion[c])
                          <= FusedScore(last.all_docs, last.docs[i])
        /\ Len(last.docs) = Min(last.top_k, Len(CandidateUnion))
        /\ \A i \in 1..Len(last.docs) : SameChunk(last.docs[i], RankedUnion[i].doc)

\* the same over indexes in which every chunk carries a global id
C25_WithGlobalIds ==
    (last.op = "search" /\ last.hybrid
        /\ \A i \in 1..Len(collection) : collection[i].metadata.global_chunk_id # Absent)
    => /\ Len(last.docs) = Min(last.top_k, Len(CandidateUnion))
       /\ \A i \in 1..Len(last.docs) : SameChunk(last.docs[i], RankedUnion[i].doc)

\* a hybrid search over chunks with global ids has left out a candidate and has put the
\* second semantic candidate ahead of the first
C25_ReorderedCase ==
    /\ last.op = "search" /\ last.hybrid
    /\ \A i \in 1..Len(collection) : collection[i].metadata.global_chunk_id # Absent
    /\ Len(CandidateUnion) > Len(last.docs)
    /\ Len(last.semantic_docs) >= 2
    /\ SameChunk(last.docs[1], last.semantic_docs[2])

\* C27: two candidates of a hybrid search are fused under one key only if they are
\* the same stored chunk; two chunks of one file that carry no global id, and two
\* chunks whose filename and id differ, are two entries of the fused set.
C27_DistinctChunksStaySeparate ==
    (last.op = "search" /\ last.hybrid) =>
        LET candidates == last.semantic_docs \o last.keyword_docs
        IN  \A i, j \in 1..Len(candidates) :
                fusion_key(candidates[i]) = fusion_key(candidates[j])
                    => SameChunk(candidates[i], candidates[j])

\* the same over indexes in which every chunk carries a global id
C27_WithGlobalIds ==
    (last.op = "search" /\ last.hybrid
        /\ \A i \in 1..Len(collection) : collection[i].metadata.global_chunk_id # Absent)
    => LET candidates == last.semantic_docs \o last.keyword_docs
       IN  \A i, j \in 1..Len(candidates) :
               fusion_key(candidates[i]) = fusion_key(candidates[j])
                   => SameChunk(candidates[i], candidates[j])

\* chunks of two files that carry the same global id are two entries of the fused set
C27_TwoFilesCase ==
    /\ last.op = "search" /\ last.hybrid
    /\ \E i, j \in 1..Len(last.all_docs) :
          /\ last.all_docs[i].doc.metadata.filename = "a.pdf"
          /\ last.all_docs[j].doc.metadata.filename = "b.pdf"
          /\ last.all_docs[i].doc.metadata.global_chunk_id
                = last.all_docs[j].doc.metadata.global_chunk_id

----------------------------------------------------------------------------
(* SpecRerank: one call of the reranking step on a candidate list *)

Candidate(i) ==
    [content  |-> "chunk " \o ToString(i),
     metadata |-> CoerceMetadata(RawChunk("r.pdf", i, 0, "").metadata),
     distance |-> i]

IsInjective(seq) == \A i, j \in 1..Len(seq) : seq[i] = seq[j] => i = j

\* the lists of distinct candidates that search hands to the reranking step
CandidateLists ==
    {c \in UNION {[1..n -> {Candidate(i) : i \in 1..MaxCandidates}] : n \in 0..MaxCandidates} :
        IsInjective(c)}

\* what CrossEncoder.predict gives a candidate; two values, so that ties happen
ScoreValues == {1, 2}

\* the arguments of one call and whether the scorer raises in it
InitRerank ==
    /\ InitConfig({[alpha |-> 5, hybrid |-> TRUE, reranker |-> r] : r \in RerankerStates})
    /\ is_initialized = FALSE
    /\ collection = <<>>
    /\ chat_history = <<>>
    /\ files = [f \in FileNames |-> NoFile]
    /\ clock = 1
    /\ loaded_since_clear = FALSE
    /\ appended = <<>>
    /\ \E candidates \in CandidateLists, top_k \in 1..MaxTopK,
          fault \in {"none", "predict"} :
          \E scores \in [1..Len(candidates) -> ScoreValues] :
              last = [NoCall EXCEPT !.candidates = candidates, !.scores = scores,
                                    !.top_k = top_k, !.fault = fault]

\* Reranker.rerank called on the Reranker the orchestrator holds
Rerank ==
    /\ last.op = "__init__"
    /\ reranker # "none"
    /\ last' = [last EXCEPT !.op = "rerank",
                            !.docs = rerank(last.candidates, last.top_k,
                                            reranker = "available", last.scores,
                                            last.fault = "predict")]
    /\ UNCHANGED <<is_initialized, collection, chat_history, files, clock, config_vars,
                   loaded_since_clear, appended>>

\* chat and stream_chat, lines 97-100 and 142-145
RerankStage ==
    /\ last.op = "__init__"
    /\ last' = [last EXCEPT !.op = "rerank_stage",
                            !.docs = rerank_stage(reranker, last.candidates, last.top_k,
                                                  last.scores, last.fault = "predict")]
    /\ UNCHANGED <<is_initialized, collection, chat_history, files, clock, config_vars,
                   loaded_since_clear, appended>>

NextRerank == Rerank \/ RerankStage

SpecRerank == InitRerank /\ [][NextRerank]_vars

IsReranked(call) == call.op \in {"rerank", "rerank_stage"}

\* the scorer gave no scores in the call: no reranker, no model, or predict raised
ScorerUnavailable == reranker # "available" \/ last.fault = "predict"

\* C12: when the scorer is unavailable the reranking step returns the first top_k of
\* its candidates, the same elements in the same order, from Reranker.rerank as well
\* as from the orchestrator's branch without a reranker.
C12_FallbackIsPrefix ==
    (IsReranked(last) /\ ScorerUnavailable) =>
        /\ Len(last.docs) = Min(last.top_k, Len(last.candidates))
        /\ \A i \in 1..Len(last.docs) : last.docs[i] = last.candidates[i]

\* C12 witness: predict raised in Reranker.rerank on more candidates than top_k whose
\* scores would have put the last candidate first
C12_Witness ==
    /\ last.op = "rerank" /\ reranker = "available" /\ last.fault = "predict"
    /\ Len(last.candidates) > last.top_k
    /\ last.scores[Len(last.candidates)] > last.scores[1]
    /\ last.docs = Take(last.candidates, last.top_k)

\* the orchestrator's branch without a reranker has cut a longer list to top_k
C12_BypassCase ==
    /\ last.op = "rerank_stage" /\ reranker = "none"
    /\ Len(last.candidates) > last.top_k
    /\ last.docs = Take(last.candidates, last.top_k)

\* the place in the candidate list of a candidate
PlaceOf(candidates, doc) == CHOOSE i \in 1..Len(candidates) : candidates[i] = doc

\* C13: with an available scorer the reranking step returns min(top_k, len) distinct
\* candidates, by score descending, candidates of equal score in their original order,
\* and leaves out no candidate that scores strictly higher than one it returns.
C13_RerankSorted ==
    (IsReranked(last) /\ ~ScorerUnavailable) =>
        LET place == [i \in 1..Len(last.docs) |-> PlaceOf(last.candidates, last.docs[i])]
            returned == {place[i] : i \in 1..Len(last.docs)}
        IN  /\ Len(last.docs) = Min(last.top_k, Len(last.candidates))
            /\ \A i \in 1..Len(last.docs) : InList(last.candidates, last.docs[i])
            /\ IsInjective(last.docs)
            /\ \A i, j \in 1..Len(last.docs) :
                  i < j => \/ last.scores[place[i]] > last.scores[place[j]]
                           \/ /\ last.scores[place[i]] = last.scores[place[j]]
                              /\ place[i] < place[j]
            /\ \A k \in (1..Len(last.candidates)) \ returned :
                  \A i \in returned : last.scores[k] <= last.scores[i]

\* C13 witness: three candidates scored 1, 2, 2 reranked to the two that score 2, in
\* their original order
C13_Witness ==
    /\ last.op = "rerank" /\ ~ScorerUnavailable
    /\ Len(last.candidates) = 3 /\ last.top_k = 2
    /\ last.scores = <<1, 2, 2>>
    /\ last.docs = <<last.candidates[2], last.candidates[3]>>

----------------------------------------------------------------------------
(* Prompt assembly *)

DEFAULT_WINDOW_SIZE == 3

PROMPT_HISTORY_SIZE == 3

PROMPT_CONTENT_LIMIT == 1000

RECURSIVE str_join(_, _)
\* sep.join(parts)
str_join(sep, parts) ==
    IF parts = <<>> THEN ""
    ELSE IF Len(parts) = 1 THEN parts[1]
    ELSE parts[1] \o sep \o str_join(sep, Tail(parts))

\* Python s[-n:] for n >= 0: s[-0:] is s[0:], the whole of s
negative_slice(s, n) == IF n = 0 THEN s ELSE LastN(s, n)

RECURSIVE flatten(_)
flatten(seqs) == IF seqs = <<>> THEN <<>> ELSE Head(seqs) \o flatten(Tail(seqs))

\* RAGChatbot._build_conversation_context
_build_conversation_context(history, current_query, window_size) ==
    IF history = <<>> THEN current_query
    ELSE LET recent_exchanges == negative_slice(history, window_size)
             context_parts ==
                 flatten([i \in 1..Len(recent_exchanges) |->
                            << "User: " \o recent_exchanges[i].human,
                               "Assistant: " \o recent_exchanges[i].assistant >>])
                 \o << "Current Question: " \o current_query >>
         IN  str_join("\n", context_parts)

\* the system message of lines 72-91, by its first sentence
SYSTEM_PREAMBLE ==
    "You're a helpful research assistant who answers questions based on provided research documents. "

\* "=" * 50
RULE == "=================================================="

CONVERSATION_HEADER == "\n=== CONVERSATION CONTEXT ==="

DOCUMENTS_HEADER == "\n=== CONTEXT DOCUMENTS ==="

HISTORY_HEADER == "\nPrevious Conversation:"

QUESTION_PREFIX == "\nCurrent Question: "

ANSWER_INSTRUCTION == "\nAnswer based on the context provided above, with accurate citations:"

\* _build_prompt, lines 101-116: the two parts one context item adds
document_parts(i, ctx_item) ==
    LET source_info ==
            IF ctx_item.is_dict
            THEN " [Document: " \o Get(ctx_item.metadata.filename, "Unknown")
                 \o ", Page: " \o Get(ctx_item.metadata.page_number, "N/A") \o "]"
            ELSE ""
        content == IF Len(ctx_item.content) > PROMPT_CONTENT_LIMIT
                   THEN SubSeq(ctx_item.content, 1, PROMPT_CONTENT_LIMIT) \o "..."
                   ELSE ctx_item.content
    IN  << "\n--- Document " \o ToString(i) \o source_info \o " ---", content >>

\* _build_prompt, lines 93-96
conversation_block(conversation_context) ==
    IF conversation_context = "" THEN <<>>
    ELSE <<CONVERSATION_HEADER, conversation_context, RULE>>

\* _build_prompt, lines 98-116
documents_block(context) ==
    IF context = <<>> THEN <<>>
    ELSE <<DOCUMENTS_HEADER>>
         \o flatten([i \in 1..Len(context) |-> document_parts(i, context[i])])
         \o <<RULE>>

\* _build_prompt, lines 118-123
history_block(history) ==
    IF history = <<>> THEN <<>>
    ELSE LET shown == negative_slice(history, PROMPT_HISTORY_SIZE)
         IN  <<HISTORY_HEADER>>
             \o flatten([i \in 1..Len(shown) |->
                           << "\nHuman: " \o shown[i].human,
                              "Assistant: " \o shown[i].assistant >>])
             \o <<"\n" \o RULE>>

\* prompt_parts with the raw history placed before the context documents
prompt_parts_history_first(user_query, context, history, conversation_context) ==
    <<SYSTEM_PREAMBLE>>
    \o conversation_block(conversation_context)
    \o history_block(history)
    \o documents_block(context)
    \o <<QUESTION_PREFIX \o user_query, ANSWER_INSTRUCTION>>

\* _build_prompt: the list prompt_parts at line 127; None and empty arguments are both
\* falsy, and are <<>> and "" here
prompt_parts(user_query, context, history, conversation_context) ==
    <<SYSTEM_PREAMBLE>>
    \o conversation_block(conversation_context)
    \o documents_block(context)
    \o history_block(history)
    \o <<QUESTION_PREFIX \o user_query, ANSWER_INSTRUCTION>>

\* OllamaLLM._build_prompt
_build_prompt(user_query, context, history, conversation_context) ==
    str_join("\n", prompt_parts(user_query, context, history, conversation_context))

----------------------------------------------------------------------------
(* SpecPrompt: one call of _build_conversation_context or of _build_prompt *)

PastExchange(i) ==
    [timestamp |-> isoformat(i), human |-> "q" \o ToString(i),
     assistant |-> "a" \o ToString(i), sources |-> <<>>]

\* histories of 0 to MaxHistory exchanges, drawn from two exchanges
Histories == UNION {[1..n -> {PastExchange(1), PastExchange(2)}] : n \in 0..MaxHistory}

ContextItem(doc) == [is_dict |-> TRUE, content |-> doc.content, metadata |-> doc.metadata]

\* a context item that is a plain string, as the tests of _build_prompt pass
TextItem(text) ==
    [is_dict |-> FALSE, content |-> text,
     metadata |-> [filename |-> Absent, page_number |-> Absent]]

ContextLists ==
    { <<>>, <<ContextItem(Candidate(1))>>,
      <<TextItem("AI is artificial intelligence."), ContextItem(Candidate(2))>> }

PromptQuery == "What is AI?"

InitPrompt ==
    /\ InitConfig({[alpha |-> 5, hybrid |-> TRUE, reranker |-> "none"]})
    /\ is_initialized = FALSE
    /\ collection = <<>>
    /\ chat_history \in Histories
    /\ files = [f \in FileNames |-> NoFile]
    /\ clock = 1
    /\ loaded_since_clear = FALSE
    /\ appended = <<>>
    /\ \E window_size \in 0..MaxWindow, context \in ContextLists,
          with_window \in BOOLEAN, history_given \in BOOLEAN :
          last = [NoCall EXCEPT
                    !.message = PromptQuery,
                    !.window_size = window_size,
                    !.context = context,
                    !.history_given = history_given,
                    !.conversation_context =
                        IF with_window
                        THEN _build_conversation_context(chat_history, PromptQuery,
                                                         DEFAULT_WINDOW_SIZE)
                        ELSE ""]

BuildConversationContext ==
    /\ last.op = "__init__"
    /\ last' = [last EXCEPT !.op = "_build_conversation_context",
                            !.response = _build_conversation_context(
                                             chat_history, last.message, last.window_size)]
    /\ UNCHANGED <<is_initialized, collection, chat_history, files, clock, config_vars,
                   loaded_since_clear, appended>>

BuildPrompt ==
    /\ last.op = "__init__"
    /\ LET history == IF last.history_given THEN chat_history ELSE <<>>
       IN  last' = [last EXCEPT
                      !.op = "_build_prompt",
                      !.parts = prompt_parts(last.message, last.context, history,
                                             last.conversation_context),
                      !.response = _build_prompt(last.message, last.context, history,
                                                 last.conversation_context)]
    /\ UNCHANGED <<is_initialized, collection, chat_history, files, clock, config_vars,
                   loaded_since_clear, appended>>

NextPrompt == BuildConversationContext \/ BuildPrompt

SpecPrompt == InitPrompt /\ [][NextPrompt]_vars

\* the window of n exchanges and the question, as the lines the specification describes
WindowLines(exchanges, current_query) ==
    flatten([i \in 1..Len(exchanges) |->
               << "User: " \o exchanges[i].human, "Assistant: " \o exchanges[i].assistant >>])
    \o << "Current Question: " \o current_query >>

\* C16: _build_conversation_context returns current_query as it is when the history is
\* empty, and otherwise the last min(window_size, len(history)) exchanges, for every
\* window_size >= 0, oldest first, each as a 'User:' and an 'Assistant:' line, then one
\* 'Current Question:' line.
C16_WindowIsLastExchanges ==
    last.op = "_build_conversation_context" =>
        IF chat_history = <<>> THEN last.response = last.message
        ELSE LET n == Min(last.window_size, Len(chat_history))
                 window == SubSeq(chat_history, Len(chat_history) - n + 1, Len(chat_history))
             IN  last.response = str_join("\n", WindowLines(window, last.message))

\* the same for window_size >= 1, which the code does satisfy
C16_PositiveWindow ==
    (last.op = "_build_conversation_context" /\ last.window_size >= 1) =>
        IF chat_history = <<>> THEN last.response = last.message
        ELSE LET n == Min(last.window_size, Len(chat_history))
                 window == SubSeq(chat_history, Len(chat_history) - n + 1, Len(chat_history))
             IN  last.response = str_join("\n", WindowLines(window, last.message))

\* where in the parts of a prompt a part stands
PlacesOf(parts, part) == {i \in 1..Len(parts) : parts[i] = part}

\* the place of a block's header, 0 when the block is absent
PlaceOfHeader(parts, header) ==
    IF PlacesOf(parts, header) = {} THEN 0 ELSE CHOOSE i \in PlacesOf(parts, header) : TRUE

\* C17: the prompt holds its blocks in the order system preamble, conversation window,
\* context documents, raw history, current question; a block that is present stands
\* once, an absent one is left out, and the prompt ends with the current question and
\* then the answer instruction.
C17_BlocksInOrder ==
    last.op = "_build_prompt" =>
        LET parts == last.parts
            n == Len(parts)
            history == IF last.history_given THEN chat_history ELSE <<>>
            present == << last.conversation_context # "", last.context # <<>>,
                          history # <<>> >>
            headers == <<CONVERSATION_HEADER, DOCUMENTS_HEADER, HISTORY_HEADER>>
            place == [b \in 1..3 |-> PlaceOfHeader(parts, headers[b])]
        IN  /\ parts[1] = SYSTEM_PREAMBLE
            /\ PlacesOf(parts, SYSTEM_PREAMBLE) = {1}
            /\ \A b \in 1..3 :
                  Cardinality(PlacesOf(parts, headers[b])) = IF present[b] THEN 1 ELSE 0
            /\ \A b, c \in 1..3 :
                  (b < c /\ present[b] /\ present[c]) => place[b] < place[c]
            /\ \A b \in 1..3 : present[b] => (1 < place[b] /\ place[b] < n - 1)
            /\ parts[n - 1] = QUESTION_PREFIX \o last.message
            /\ parts[n] = ANSWER_INSTRUCTION
            /\ PlacesOf(parts, QUESTION_PREFIX \o last.message) = {n - 1}
            /\ last.response = str_join("\n", parts)

\* C17 witness: a prompt with all three optional blocks
C17_Witness ==
    /\ last.op = "_build_prompt"
    /\ last.conversation_context # "" /\ last.context # <<>>
    /\ last.history_given /\ Len(chat_history) > PROMPT_HISTORY_SIZE
    /\ PlaceOfHeader(last.parts, CONVERSATION_HEADER) = 2
    /\ PlaceOfHeader(last.parts, DOCUMENTS_HEADER) = 5

\* a prompt with only the raw history: the other two blocks are left out
C17_OnlyHistoryCase ==
    /\ last.op = "_build_prompt"
    /\ last.conversation_context = "" /\ last.context = <<>>
    /\ PlaceOfHeader(last.parts, HISTORY_HEADER) = 2

----------------------------------------------------------------------------
(* SpecProcess: one call of TextProcessor.process_documents *)

\* a document whose first page raises
DocBadFirst == [filename |-> "y.pdf", pages |-> <<BadPage(1), Page(2, <<"late">>)>>]

\* a document with a page of two chunks, a page that raises and a page after it
DocTwo ==
    [filename |-> "t.pdf",
     pages |-> <<Page(1, <<"one", "two">>), BadPage(2), Page(3, <<"three">>)>>]

ProcessedDocs == {DocA, DocB, DocEmpty, DocBad, DocBadFirst, DocTwo}

InitProcess ==
    /\ InitConfig({[alpha |-> 5, hybrid |-> TRUE, reranker |-> "none"]})
    /\ is_initialized = FALSE
    /\ collection = <<>>
    /\ chat_history = <<>>
    /\ files = [f \in FileNames |-> NoFile]
    /\ clock = 1
    /\ loaded_since_clear = FALSE
    /\ appended = <<>>
    /\ \E documents \in UNION {[1..n -> ProcessedDocs] : n \in 0..MaxDocuments} :
          last = [NoCall EXCEPT !.documents = documents]

ProcessDocuments ==
    /\ last.op = "__init__"
    /\ last' = [last EXCEPT !.op = "process_documents",
                            !.docs = process_documents(last.documents)]
    /\ UNCHANGED <<is_initialized, collection, chat_history, files, clock, config_vars,
                   loaded_since_clear, appended>>

NextProcess == ProcessDocuments

SpecProcess == InitProcess /\ [][NextProcess]_vars

\* the pages of a document before its first page that raises
PagesRead(doc) ==
    LET bad == {p \in 1..Len(doc.pages) : doc.pages[p].raises}
    IN  IF bad = {} THEN doc.pages
        ELSE SubSeq(doc.pages, 1, (CHOOSE p \in bad : \A o \in bad : p <= o) - 1)

\* the texts of the chunks in the order documents, pages, chunks
TextsInOrder(documents) ==
    flatten([d \in 1..Len(documents) |->
               flatten([p \in 1..Len(PagesRead(documents[d])) |->
                          PagesRead(documents[d])[p].chunks])])

\* C18: the chunks one process_documents call returns carry the global_chunk_id values
\* 0, 1, 2, ... in the order documents, pages, chunks, pairwise distinct and without a
\* gap, also when a document raises part-way through its pages.
C18_GlobalIdsCountUp ==
    last.op = "process_documents" =>
        /\ \A i \in 1..Len(last.docs) : last.docs[i].metadata.global_chunk_id = i - 1
        /\ \A i, j \in 1..Len(last.docs) :
              last.docs[i].metadata.global_chunk_id = last.docs[j].metadata.global_chunk_id
                  => i = j
        /\ [i \in 1..Len(last.docs) |-> last.docs[i].content] = TextsInOrder(last.documents)

\* C18 witness: a document that raises on its second page, then another document; the
\* chunk of the first page is 0 and the chunk of the next document is 1
C18_Witness ==
    /\ last.op = "process_documents"
    /\ last.documents = <<DocBad, DocB>>
    /\ Len(last.docs) = 2
    /\ last.docs[2].metadata.filename = "b.pdf"
    /\ last.docs[2].metadata.global_chunk_id = 1

----------------------------------------------------------------------------
(* SpecLoad: loads of files and of directories with several documents *)

InitLoad == InitWith({[alpha |-> 5, hybrid |-> TRUE, reranker |-> "none"]}, {<<>>})

load_directory == LoadDocuments(Paths)

NextLoad == load_directory \/ clear_database

SpecLoad == InitLoad /\ [][NextLoad]_vars

\* a document of a path that was ingested and whose pages were all chunked
ProcessedWhole(entry) ==
    entry.loads /\ \A p \in 1..Len(entry.doc.pages) : ~entry.doc.pages[p].raises

\* the texts of all the chunks of the documents of a path that were processed whole
TextsOfWholeDocuments(entries) ==
    flatten([e \in 1..Len(entries) |->
               IF ProcessedWhole(entries[e])
               THEN flatten([p \in 1..Len(entries[e].doc.pages) |->
                               entries[e].doc.pages[p].chunks])
               ELSE <<>>])

\* the texts of the chunks that a step has added to the index
TextsAdded(before, after) ==
    [i \in 1..(Len(after) - Len(before)) |-> after[Len(before) + i].content]

\* C21: a load in which embedding and indexing work fails only if no document of the
\* path yields a chunk, and a load that succeeds into an empty index has added the
\* chunks of the documents processed whole, all of them and no others: a document that
\* failed at ingestion or during chunking contributes nothing.
C21_FailedDocumentsSkipped ==
    [][ (last'.op = "load_documents" /\ last'.fault = "none" /\ collection = <<>>) =>
            /\ last'.ok <=> TextsOfWholeDocuments(last'.documents) # <<>>
            /\ last'.ok =>
                  TextsAdded(collection, collection')
                      = TextsOfWholeDocuments(last'.documents) ]_vars

\* the part of C21 that the code satisfies: documents that fail at ingestion contribute
\* nothing and every document processed whole contributes all of its chunks, in order
C21_WholeDocumentsComplete ==
    [][ (last'.op = "load_documents" /\ last'.ok /\ collection = <<>>) =>
            \E kept \in SUBSET (1..Len(collection')) :
                LET texts == TextsOfWholeDocuments(last'.documents)
                    picked == SelectSeq([i \in 1..Len(collection') |-> i],
                                        LAMBDA i : i \in kept)
                IN  /\ Len(picked) = Len(texts)
                    /\ \A i \in 1..Len(texts) : collection'[picked[i]].content = texts[i]
                    /\ \A i \in 1..Len(collection') :
                          collection'[i].metadata.filename
                              \in {last'.documents[e].doc.filename :
                                     e \in {x \in 1..Len(last'.documents) :
                                               last'.documents[x].loads}} ]_vars

\* a directory with a corrupted file between two documents has been loaded: the chunks
\* of the two documents are indexed
C21_CorruptedFileCase ==
    /\ last.op = "load_documents" /\ last.ok
    /\ Len(last.documents) = 3
    /\ [i \in 1..Len(collection) |-> collection[i].content]
           = <<"the cat sat", "Dog and cat", "a dog barks">>

----------------------------------------------------------------------------
(* SpecGenerate: one call of OllamaLLM.generate_response *)

\* the 'response' field of the reply; Absent = the reply has no such field
ResponseFields == {Absent, "", " hello ", "hi", "\n ok\t", "a b", "  "}

GenerateReplies ==
    { [Reply(kind, status, 0) EXCEPT !.response = text] :
        kind \in {"http", "undecodable", "timeout", "exception"},
        status \in {200, 404, 500}, text \in ResponseFields }

InitGenerate ==
    /\ InitConfig({[alpha |-> 5, hybrid |-> TRUE, reranker |-> "none"]})
    /\ is_initialized = FALSE
    /\ collection = <<>>
    /\ chat_history = <<>>
    /\ files = [f \in FileNames |-> NoFile]
    /\ clock = 1
    /\ loaded_since_clear = FALSE
    /\ appended = <<>>
    /\ \E reply \in GenerateReplies : last = [NoCall EXCEPT !.reply = reply]

GenerateResponse ==
    /\ last.op = "__init__"
    /\ last' = [last EXCEPT !.op = "generate_response",
                            !.response = generate_response(last.reply)]
    /\ UNCHANGED <<is_initialized, collection, chat_history, files, clock, config_vars,
                   loaded_since_clear, appended>>

NextGenerate == GenerateResponse

SpecGenerate == InitGenerate /\ [][NextGenerate]_vars

IsBlank(s) == \A i \in 1..Len(s) : CharAt(s, i) \in Whitespace

\* stripped is text without the whitespace at its two ends
IsStripOf(stripped, text) ==
    /\ \E i \in 1..(Len(text) + 1) :
          /\ IsBlank(SubSeq(text, 1, i - 1))
          /\ SubSeq(text, i, i + Len(stripped) - 1) = stripped
          /\ IsBlank(SubSeq(text, i + Len(stripped), Len(text)))
    /\ stripped # "" =>
          (CharAt(stripped, 1) \notin Whitespace
             /\ CharAt(stripped, Len(stripped)) \notin Whitespace)

ErrorStrings == {TIMEOUT_MESSAGE, PROCESSING_ERROR_MESSAGE, GENERATION_ERROR_MESSAGE}

\* C22: generate_response returns one string in every case: an error string on a
\* timeout, on a failed connection or any other exception and on a status other than
\* 200, and the stripped 'response' field of the reply on a 200.
C22_GenerateReturnsString ==
    last.op = "generate_response" =>
        LET reply == last.reply
        IN  /\ reply.kind \in {"timeout", "exception"} => last.response \in ErrorStrings
            /\ (reply.kind \in {"http", "undecodable"} /\ reply.status # 200) =>
                  last.response \in ErrorStrings
            /\ (reply.kind = "undecodable" /\ reply.status = 200) =>
                  last.response \in ErrorStrings
            /\ (reply.kind = "http" /\ reply.status = 200) =>
                  IsStripOf(last.response, Get(reply.response, ""))

\* C22 witness: a 200 reply whose text has whitespace at both ends
C22_Witness ==
    /\ last.op = "generate_response"
    /\ last.reply.kind = "http" /\ last.reply.status = 200
    /\ last.reply.response = "\n ok\t"
    /\ last.response = "ok"

\* a status 500 has come back as an error string
C22_ErrorStatusCase ==
    /\ last.op = "generate_response"
    /\ last.reply.kind = "http" /\ last.reply.status = 500
    /\ last.response = GENERATION_ERROR_MESSAGE

----------------------------------------------------------------------------
(* SpecKeyword: one lexical retrieval of a hybrid search *)

\* the indexes that one or two of the batches leave
KeywordCollections ==
    {<<>>} \cup
    { add_documents(add_documents(<<>>, b1, FALSE, "skip").collection, b2, FALSE,
                    "skip").collection : b1 \in Batches, b2 \in Batches }

\* query texts: also a repeated keyword, punctuation and a plural, a token with a
\* digit, and more than KEYWORD_LIMIT keywords
KeywordTexts ==
    SearchTexts \cup {"dog dog cat", "Cat, cats and a dog!", "abc1 to be",
                      "one two three four five six cat"}

InitKeyword ==
    /\ InitConfig({[alpha |-> 5, hybrid |-> TRUE, reranker |-> "none"]})
    /\ is_initialized = FALSE
    /\ collection \in KeywordCollections
    /\ chat_history = <<>>
    /\ files = [f \in FileNames |-> NoFile]
    /\ clock = 1
    /\ loaded_since_clear = FALSE
    /\ appended = <<>>
    /\ \E query_text \in KeywordTexts, top_k \in 1..MaxTopK, fault \in {"none", "get"} :
          last = [NoCall EXCEPT !.message = query_text, !.top_k = top_k, !.fault = fault]

\* _hybrid_search, line 105: the lexical retrieval for top_k * 2 chunks
KeywordSearch ==
    /\ last.op = "__init__"
    /\ last' = [last EXCEPT
                  !.op = "_keyword_search",
                  !.keyword_docs = _format_search_results(
                                       _keyword_search(collection, last.message,
                                                       last.top_k * 2,
                                                       last.fault = "get"))]
    /\ UNCHANGED <<is_initialized, collection, chat_history, files, clock, config_vars,
                   loaded_since_clear, appended>>

NextKeyword == KeywordSearch

SpecKeyword == InitKeyword /\ [][NextKeyword]_vars

\* the keywords of the last query text, each once
KeywordSet == Range(_extract_keywords(last.message))

\* how many distinct keywords a chunk contains
DistinctMatches(content) ==
    Cardinality({k \in KeywordSet : str_contains(str_lower(content), k)})

\* the stored chunks that contain a keyword, ranked by their number of distinct
\* keywords, chunks of equal number in corpus order
RankedMatches ==
    LET matching == SelectSeq(collection, LAMBDA d : DistinctMatches(d.content) >= 1)
    IN  SortDesc([i \in 1..Len(matching) |->
                    [score |-> DistinctMatches(matching[i].content), doc |-> matching[i]]])

\* C26: lexical retrieval takes at most 5 keywords from the query text, lower-cased
\* alphabetic tokens of 3 letters or more that are no stop words, and returns the
\* 2 x top_k chunks that contain the most distinct keywords, at least one, a keyword
\* repeated in the query counted once and chunks of equal count in corpus order.
C26_LexicalRanking ==
    (last.op = "_keyword_search" /\ last.fault = "none") =>
        /\ Len(_extract_keywords(last.message)) <= KEYWORD_LIMIT
        /\ \A k \in KeywordSet :
              /\ Len(k) >= KEYWORD_MIN_LEN
              /\ \A i \in 1..Len(k) : CharAt(k, i) \in LowerLetters
              /\ k \notin stop_words
        /\ Len(last.keyword_docs) = Min(2 * last.top_k, Len(RankedMatches))
        /\ \A i \in 1..Len(last.keyword_docs) :
              SameChunk(last.keyword_docs[i], RankedMatches[i].doc)

\* the same for query texts in which no keyword is repeated
C26_WithoutRepeats ==
    (last.op = "_keyword_search" /\ last.fault = "none"
        /\ Cardinality(KeywordSet) = Len(_extract_keywords(last.message))) =>
        /\ Len(last.keyword_docs) = Min(2 * last.top_k, Len(RankedMatches))
        /\ \A i \in 1..Len(last.keyword_docs) :
              SameChunk(last.keyword_docs[i], RankedMatches[i].doc)

\* a lexical retrieval has put a chunk with two keywords ahead of an earlier chunk
\* with one
C26_RankedCase ==
    /\ last.op = "_keyword_search" /\ last.fault = "none"
    /\ Cardinality(KeywordSet) = Len(_extract_keywords(last.message))
    /\ Len(last.keyword_docs) >= 2
    /\ DistinctMatches(last.keyword_docs[1].content) = 2
    /\ DistinctMatches(last.keyword_docs[2].content) = 1
    /\ SameChunk(last.keyword_docs[2], collection[1])

----------------------------------------------------------------------------
(* SpecStream: one call of OllamaLLM.stream_response that gets a status 200 *)

EmptyLine == [kind |-> "empty", has_response |-> FALSE, response |-> "", done |-> FALSE]

UndecodableLine ==
    [kind |-> "undecodable", has_response |-> FALSE, response |-> "", done |-> FALSE]

\* a JSON object without a 'response' key
BareLine == [kind |-> "json", has_response |-> FALSE, response |-> "", done |-> FALSE]

LineKinds ==
    {JsonLine("a", FALSE), JsonLine("b", TRUE), BareLine, EmptyLine, MalformedLine,
     UndecodableLine}

InitStream ==
    /\ InitConfig({[alpha |-> 5, hybrid |-> TRUE, reranker |-> "none"]})
    /\ is_initialized = FALSE
    /\ collection = <<>>
    /\ chat_history = <<>>
    /\ files = [f \in FileNames |-> NoFile]
    /\ clock = 1
    /\ loaded_since_clear = FALSE
    /\ appended = <<>>
    /\ \E lines \in UNION {[1..n -> LineKinds] : n \in 0..MaxLines} :
          last = [NoCall EXCEPT !.reply = [Reply("http", 200, 0) EXCEPT !.lines = lines]]

StreamResponse ==
    /\ last.op = "__init__"
    /\ last' = [last EXCEPT !.op = "stream_response",
                            !.yielded = stream_response(last.reply)]
    /\ UNCHANGED <<is_initialized, collection, chat_history, files, clock, config_vars,
                   loaded_since_clear, appended>>

NextStream == StreamResponse

SpecStream == InitStream /\ [][NextStream]_vars

\* the number of the first line that is a JSON object with a true 'done', or the number
\* of lines when there is none
LastLineRead(lines) ==
    LET dones == {i \in 1..Len(lines) : lines[i].kind = "json" /\ lines[i].done}
    IN  IF dones = {} THEN Len(lines) ELSE CHOOSE i \in dones : \A j \in dones : i <= j

\* the 'response' values of the JSON lines up to the done line, in line order
ResponsesUpToDone(lines) ==
    LET read == SubSeq(lines, 1, LastLineRead(lines))
        carrying == SelectSeq(read, LAMBDA l : l.kind = "json" /\ l.has_response)
    IN  [i \in 1..Len(carrying) |-> carrying[i].response]

\* C28: on a status 200 stream_response yields the 'response' values of the well-formed
\* JSON lines, in line order, up to and including the first line whose 'done' is true;
\* a line that fails to parse is skipped and does not end the stream, an empty line is
\* ignored, and nothing is yielded after the done line.
C28_StreamYieldsResponses ==
    last.op = "stream_response" => last.yielded = ResponsesUpToDone(last.reply.lines)

\* the same for streams whose every line is text: empty, JSON, or not JSON
C28_TextLines ==
    (last.op = "stream_response"
        /\ \A i \in 1..Len(last.reply.lines) : last.reply.lines[i].kind # "undecodable")
    => last.yielded = ResponsesUpToDone(last.reply.lines)

\* a line that is not JSON stood between two JSON lines and the second was still
\* yielded; a line after the done line was not
C28_SkippedLineCase ==
    /\ last.op = "stream_response"
    /\ last.reply.lines = <<JsonLine("a", FALSE), MalformedLine, JsonLine("b", TRUE)>>
    /\ last.yielded = <<"a", "b">>

----------------------------------------------------------------------------
(* SpecTurn: turns that ask for fewer chunks than the search finds, under every state of the
   reranker *)

TurnConfigurations ==
    { [alpha |-> 5, hybrid |-> TRUE, reranker |-> rr] : rr \in RerankerStates }

InitTurn == InitWith(TurnConfigurations, {<<>>})

\* the callers of chat and stream_chat: top_k from 1, scores that keep or reverse the order
RankedQueries(n) ==
    { Query("cat", k, GrowingDistances(n), sc, f, Reply("http", 200, 0)) :
        k \in 1..MaxTopK, sc \in {GrowingScores, [i \in 1..(2 * DEFAULT_TOP_K) |-> 0]},
        f \in {"none", "predict"} }

chat_turn == Chat(RankedQueries(Len(collection)))

stream_chat_turn == StreamChat(RankedQueries(Len(collection)))

NextTurn == load_directory \/ chat_turn \/ stream_chat_turn

SpecTurn == InitTurn /\ [][NextTurn]_vars

\* _update_chat_history, line 177: the metadata of the documents handed over, in their order
MetadataOf(documents) == [i \in 1..Len(documents) |-> documents[i].metadata]

C29_BypassCase ==
    /\ last.op = "stream_chat" /\ "append" \in Range(last.steps)
    /\ reranker # "available"
    /\ last.top_k = 1 /\ Len(collection) > 1
    /\ Len(chat_history) = 1
    /\ chat_history[1].sources = MetadataOf(last.docs)
    /\ Len(last.docs) = 1

----------------------------------------------------------------------------
(* The conversation and the index, under Spec *)

ConversationOperations == {"clear_chat_history", "save_chat_history", "load_chat_history"}

IndexOperations == {"clear_database", "load_documents"}

QueryOperations == {"chat", "stream_chat", "get_relevant_sources"}

\* C30: clear_chat_history, save_chat_history and load_chat_history leave the initialization
\* flag and the indexed chunks as they were; clear_database and load_documents leave the chat
\* history as it was; chat, stream_chat and get_relevant_sources leave the flag and the
\* chunks as they were, and get_relevant_sources, which returns an empty list when no
\* documents are loaded, leaves the chat history as it was too
C30_ConversationAndIndexApart ==
    [][/\ last'.op \in ConversationOperations \cup QueryOperations
           => is_initialized' = is_initialized /\ collection' = collection
       /\ last'.op \in IndexOperations \cup {"get_relevant_sources"}
           => chat_history' = chat_history
       /\ (last'.op = "get_relevant_sources" /\ ~is_initialized)
           => last'.docs = <<>>]_vars

\* the index has been cleared under a conversation that is still there
C30_ClearedUnderConversation ==
    /\ last.op = "clear_database"
    /\ last.was_ready
    /\ chat_history # <<>>
    /\ ~is_initialized

\* the conversation has been cleared over an index that is still there
C30_ClearedOverIndex ==
    /\ last.op = "clear_chat_history"
    /\ chat_history = <<>>
    /\ clock > 1
    /\ is_initialized
    /\ collection # <<>>

====
